---- MODULE Spec2Model ----
(***************************************************************************)
(* Model of the litra device-control library (src/lib.rs) and the compound *)
(* command handlers built on it (src/main.rs), as shipped in litra.md.     *)
(*                                                                         *)
(* One caller drives one DeviceHandle.  A call is split at its transport   *)
(* boundaries: Begin, QueryWrite, QueryRead (decode + handler arithmetic), *)
(* SetCall (validation + write of the set report), Return.  The transport  *)
(* is external: every write or read either fails (HidError, e.g. the       *)
(* device was unplugged) or succeeds, and a successful read delivers any   *)
(* number of bytes 0..20 with arbitrary payload bytes.  The library keeps  *)
(* no copy of the device's state: what reaches the device is exactly the   *)
(* set reports whose write succeeded, which the log io records.            *)
(*                                                                         *)
(* Further specifications over the same code: SpecCatalog (classification, *)
(* enumeration and open of devices), SpecPercentage (brightness set by     *)
(* every u8 percentage) and SpecSessions (two callers and a device that    *)
(* answers queries with its state).  Each leaves the variables of the      *)
(* others parked at their initial values.                                  *)
(***************************************************************************)
EXTENDS Integers, Sequences, FiniteSets, TLC

VARIABLES
    device_type,      \* DeviceHandle.device_type (copied by value at open)
    overflow_checks,  \* build profile: TRUE = debug (arithmetic overflow panics), FALSE = release (wraps)
    pc,               \* position of the caller inside the current call
    call,             \* the operation being executed and its arguments
    target,           \* argument handed to the DeviceHandle set method
    io,               \* transport calls issued by the current call, in order
    result,           \* outcome of the current call
    \* -- device catalog (Litra context, Device descriptors, open) --
    hid_list,         \* HidApi's cached device list: sequence of DeviceInfo
    plugged,          \* per list entry: is that device still physically attached
    tried,            \* the last Device::try_from call: its DeviceInfo and its outcome
    enumerated,       \* the Devices collected from the last get_connected_devices()
    opened,           \* outcome of the last Device::open, and the handle it created
    \* -- two callers against one physical device --
    sharing,          \* how the two callers reach the device
    phys,             \* the physical device's power state and brightness
    inq,              \* per handle: input reports queued by the device, oldest first
    cpc,              \* per caller: position inside its current operation
    ccall,            \* per caller: the operation and its arguments
    cgot,             \* per caller: the value its query decoded, and whose request it answered
    ctarget,          \* per caller: argument handed to the set method
    tally,            \* operations begun per caller, updates applied to the device
    \* -- desktop frontend (Pinia device store, presets) --
    cache,            \* the store's cached DeviceInfo of the selected device
    opstate,          \* operationStates: per operation kind its loading / error / success
    tasks,            \* invocations of async store actions that have not completed
    last,             \* the step the frontend took last, and its invocation
    preset            \* usePresets: manuallySelectedPreset and the applyPreset in progress

catalog == <<hid_list, plugged, tried, enumerated, opened>>

sessions == <<sharing, phys, inq, cpc, ccall, cgot, ctarget, tally>>

handle == <<device_type, overflow_checks, pc, call, target, io, result>>

frontend == <<cache, opstate, tasks, last, preset>>

vars == <<device_type, overflow_checks, pc, call, target, io, result,
          hid_list, plugged, tried, enumerated, opened,
          sharing, phys, inq, cpc, ccall, cgot, ctarget, tally,
          cache, opstate, tasks, last, preset>>

----------------------------------------------------------------------------
(* Types and constants of lib.rs                                           *)

DeviceType == {"LitraGlow", "LitraBeam", "LitraBeamLX"}

MINIMUM_TEMPERATURE_IN_KELVIN == 2700
MAXIMUM_TEMPERATURE_IN_KELVIN == 6500

ReportLen == 20

U16 == 65536
I16Min == 0 - 32768

None == 0 - 1

minimum_brightness_in_lumen(dt) ==
    IF dt = "LitraGlow" THEN 20 ELSE 30

\* mutant: every model reports the Glow's maximum
maximum_brightness_in_lumen_GlowForAll(dt) == 250

maximum_brightness_in_lumen(dt) ==
    IF dt = "LitraGlow" THEN 250 ELSE 400

minimum_temperature_in_kelvin(dt) == MINIMUM_TEMPERATURE_IN_KELVIN

maximum_temperature_in_kelvin(dt) == MAXIMUM_TEMPERATURE_IN_KELVIN

----------------------------------------------------------------------------
(* Command codec                                                           *)

\* mutant: little-endian byte order
to_le_bytes(v) == <<v % 256, v \div 256>>

\* u16::to_be_bytes
to_be_bytes(v) == <<v \div 256, v % 256>>

generate_is_on_bytes(dt) ==
    IF dt \in {"LitraGlow", "LitraBeam"}
    THEN <<17, 255, 4, 1, 0, 0, 0, 0, 0, 0, 0, 0, 0, 0, 0, 0, 0, 0, 0, 0>>
    ELSE <<17, 255, 6, 1, 0, 0, 0, 0, 0, 0, 0, 0, 0, 0, 0, 0, 0, 0, 0, 0>>

generate_get_brightness_in_lumen_bytes(dt) ==
    IF dt \in {"LitraGlow", "LitraBeam"}
    THEN <<17, 255, 4, 49, 0, 0, 0, 0, 0, 0, 0, 0, 0, 0, 0, 0, 0, 0, 0, 0>>
    ELSE <<17, 255, 6, 49, 0, 0, 0, 0, 0, 0, 0, 0, 0, 0, 0, 0, 0, 0, 0, 0>>

generate_get_temperature_in_kelvin_bytes(dt) ==
    IF dt \in {"LitraGlow", "LitraBeam"}
    THEN <<17, 255, 4, 129, 0, 0, 0, 0, 0, 0, 0, 0, 0, 0, 0, 0, 0, 0, 0, 0>>
    ELSE <<17, 255, 6, 129, 0, 0, 0, 0, 0, 0, 0, 0, 0, 0, 0, 0, 0, 0, 0, 0>>

\* mutant: the report always asks for power on
generate_set_on_bytes_AlwaysOn(dt, on) ==
    IF dt \in {"LitraGlow", "LitraBeam"}
    THEN <<17, 255, 4, 28, 1, 0, 0, 0, 0, 0, 0, 0, 0, 0, 0, 0, 0, 0, 0, 0>>
    ELSE <<17, 255, 6, 28, 1, 0, 0, 0, 0, 0, 0, 0, 0, 0, 0, 0, 0, 0, 0, 0>>

generate_set_on_bytes(dt, on) ==
    LET on_byte == IF on THEN 1 ELSE 0
    IN  IF dt \in {"LitraGlow", "LitraBeam"}
        THEN <<17, 255, 4, 28, on_byte, 0, 0, 0, 0, 0, 0, 0, 0, 0, 0, 0, 0, 0, 0, 0>>
        ELSE <<17, 255, 6, 28, on_byte, 0, 0, 0, 0, 0, 0, 0, 0, 0, 0, 0, 0, 0, 0, 0>>

generate_set_brightness_in_lumen_bytes(dt, brightness_in_lumen) ==
    LET brightness_bytes == to_be_bytes(brightness_in_lumen)
    IN  IF dt \in {"LitraGlow", "LitraBeam"}
        THEN <<17, 255, 4, 76, brightness_bytes[1], brightness_bytes[2],
               0, 0, 0, 0, 0, 0, 0, 0, 0, 0, 0, 0, 0, 0>>
        ELSE <<17, 255, 6, 76, brightness_bytes[1], brightness_bytes[2],
               0, 0, 0, 0, 0, 0, 0, 0, 0, 0, 0, 0, 0, 0>>

\* mutant: the Beam LX arm is missing, every device gets prefix 0x04
generate_set_temperature_in_kelvin_bytes_NoLX(dt, temperature_in_kelvin) ==
    <<17, 255, 4, 156, to_be_bytes(temperature_in_kelvin)[1],
      to_be_bytes(temperature_in_kelvin)[2],
      0, 0, 0, 0, 0, 0, 0, 0, 0, 0, 0, 0, 0, 0>>

generate_set_temperature_in_kelvin_bytes(dt, temperature_in_kelvin) ==
    LET temperature_bytes == to_be_bytes(temperature_in_kelvin)
    IN  IF dt \in {"LitraGlow", "LitraBeam"}
        THEN <<17, 255, 4, 156, temperature_bytes[1], temperature_bytes[2],
               0, 0, 0, 0, 0, 0, 0, 0, 0, 0, 0, 0, 0, 0>>
        ELSE <<17, 255, 6, 156, temperature_bytes[1], temperature_bytes[2],
               0, 0, 0, 0, 0, 0, 0, 0, 0, 0, 0, 0, 0, 0>>

\* response_buffer[..response][i] (0-based i): in bounds only when i < response
InBounds(n, i) == i < n

\* mutant: any non-zero byte counts as "on"
decode_is_on_NonZero(buf) == buf[5] # 0

\* Ok(response_buffer[..response][4] == 1)
decode_is_on(buf) == buf[5] = 1

\* u16::from(response_buffer[..response][4]) * 256 + u16::from(response_buffer[..response][5])
decode_u16(buf) == (buf[5] * 256 + buf[6]) % U16

----------------------------------------------------------------------------
(* Integer arithmetic of the handlers (main.rs), with Rust's widths         *)

\* u16 + u16: a debug build panics on overflow, a release build wraps
u16_add(a, b, checks) ==
    [panic |-> checks /\ a + b >= U16, v |-> (a + b) % U16]

\* u16 - u16: a debug build panics on underflow, a release build wraps
u16_sub(a, b, checks) ==
    [panic |-> checks /\ a < b, v |-> (a - b) % U16]

\* `x as i16` of a u16 (never panics, reinterprets the bits)
as_i16(u) == IF u >= 32768 THEN u - U16 ELSE u

\* `x as u16` of an i16 or a u32 (never panics, truncates)
as_u16(i) == i % U16

\* i16 - i16
i16_sub(a, b, checks) ==
    [panic |-> checks /\ (a - b < I16Min \/ a - b > 32767),
     v     |-> ((a - b - I16Min) % U16) + I16Min]

\* The (percentage, start, end) triples for which the f64 product
\* (percentage / 100.0) * range + start lands one ulp below the exact x.5,
\* so that .round() goes down where exact arithmetic would round up.
F64BelowHalf == {<<205, 20, 250>>, <<115, 30, 400>>, <<205, 30, 400>>, <<255, 30, 400>>}

\* mutant: the fraction is cut off instead of rounded
percentage_within_range_Truncate(percentage, start_range, end_range) ==
    (100 * start_range + percentage * (end_range - start_range)) \div 100

\* ((percentage as f64 / 100.0) * range + start_range as f64).round() as u32
percentage_within_range(percentage, start_range, end_range) ==
    LET range  == end_range - start_range
        scaled == 100 * start_range + percentage * range   \* 100 * exact result
        half_away == (2 * scaled + 100) \div 200
    IN  IF <<percentage, start_range, end_range>> \in F64BelowHalf
        THEN half_away - 1
        ELSE half_away

----------------------------------------------------------------------------
(* Inputs                                                                  *)

\* u16 arguments (lumens, Kelvin, deltas) the caller may pass
U16Inputs == {0, 19, 20, 100, 250, 251, 400, 2600, 2700, 4500, 4550, 6500, 6600, 65436, 65535}

\* u8 percentages the caller may pass
PercentageInputs == {0, 10, 50, 100, 101, 255}

\* values whose big-endian bytes the device may put at response[4], response[5]
ResponseValues == {0, 1, 30, 100, 256, 400, 2700, 4500, 6500, 6550, 32768, 65535}

\* number of bytes a successful read may deliver into the 20-byte buffer
ReadLens == 0 .. ReportLen

QueryOps == {"is_on", "brightness_in_lumen", "temperature_in_kelvin"}
SetOps   == {"set_on", "set_brightness_in_lumen", "set_temperature_in_kelvin"}
Commands == {"toggle", "brightness", "brightness_up", "brightness_down",
             "temperature", "temperature_up", "temperature_down"}

NoCall == [op |-> "none", on |-> FALSE, value |-> None, percentage |-> None]

Calls ==
    {[op |-> o, on |-> FALSE, value |-> None, percentage |-> None] :
        o \in QueryOps \cup {"toggle"}}
    \cup {[op |-> "set_on", on |-> b, value |-> None, percentage |-> None] : b \in BOOLEAN}
    \cup {[op |-> o, on |-> FALSE, value |-> v, percentage |-> None] :
            o \in {"set_brightness_in_lumen", "set_temperature_in_kelvin", "brightness",
                   "brightness_up", "brightness_down", "temperature",
                   "temperature_up", "temperature_down"},
            v \in U16Inputs}
    \cup {[op |-> o, on |-> FALSE, value |-> None, percentage |-> p] :
            o \in {"brightness", "brightness_up", "brightness_down"},
            p \in PercentageInputs}

\* the DeviceHandle query an operation starts with ("none": it starts with a set)
QueryFn(op) ==
    CASE op \in {"is_on", "toggle"} -> "is_on"
      [] op \in {"brightness_in_lumen", "brightness_up", "brightness_down"} -> "brightness_in_lumen"
      [] op \in {"temperature_in_kelvin", "temperature_up", "temperature_down"} -> "temperature_in_kelvin"
      [] OTHER -> "none"

QueryBytes(fn, dt) ==
    CASE fn = "is_on" -> generate_is_on_bytes(dt)
      [] fn = "brightness_in_lumen" -> generate_get_brightness_in_lumen_bytes(dt)
      [] fn = "temperature_in_kelvin" -> generate_get_temperature_in_kelvin_bytes(dt)

\* highest 0-based index the decoder of fn reads from response_buffer[..response]
LastIndex(fn) == IF fn = "is_on" THEN 4 ELSE 5

----------------------------------------------------------------------------
(* Handler arithmetic (main.rs): what a command does with the value it     *)
(* read.  Outcome: tag "set" (v is handed to the set method), "Panic",     *)
(* or "CliInvalidBrightness" (CliError::InvalidBrightness(i16)).           *)

Outcome(t, v) == [tag |-> t, v |-> v]

FromArith(r) == IF r.panic THEN Outcome("Panic", None) ELSE Outcome("set", r.v)

\* mutant: the minimum is not subtracted from the converted percentage
percentage_delta_NoMinSubtracted(dt, percentage, checks) ==
    [panic |-> FALSE,
     v |-> as_u16(percentage_within_range(percentage,
                                          minimum_brightness_in_lumen(dt),
                                          maximum_brightness_in_lumen(dt)))]

\* percentage_within_range(percentage, min, max) as u16 - min
percentage_delta(dt, percentage, checks) ==
    u16_sub(as_u16(percentage_within_range(percentage,
                                           minimum_brightness_in_lumen(dt),
                                           maximum_brightness_in_lumen(dt))),
            minimum_brightness_in_lumen(dt), checks)

handle_brightness_up_command(dt, current_brightness, c, checks) ==
    IF c.value # None
    THEN FromArith(u16_add(current_brightness, c.value, checks))
    ELSE LET brightness_to_add == percentage_delta(dt, c.percentage, checks)
         IN  IF brightness_to_add.panic
             THEN Outcome("Panic", None)
             ELSE FromArith(u16_add(current_brightness, brightness_to_add.v, checks))

handle_brightness_down_command(dt, current_brightness, c, checks) ==
    IF c.value # None
    THEN FromArith(u16_sub(current_brightness, c.value, checks))
    ELSE LET brightness_to_subtract == percentage_delta(dt, c.percentage, checks)
             new_brightness == i16_sub(as_i16(current_brightness),
                                       as_i16(brightness_to_subtract.v), checks)
         IN  IF brightness_to_subtract.panic \/ new_brightness.panic
             THEN Outcome("Panic", None)
             ELSE IF new_brightness.v < 0
                  THEN Outcome("CliInvalidBrightness", new_brightness.v)
                  ELSE Outcome("set", as_u16(new_brightness.v))

handle_temperature_up_command(current_temperature, c, checks) ==
    FromArith(u16_add(current_temperature, c.value, checks))

handle_temperature_down_command(current_temperature, c, checks) ==
    FromArith(u16_sub(current_temperature, c.value, checks))

\* the set-method argument of a command that starts with a query
NoTarget == [kind |-> "none", on |-> FALSE, v |-> None]
OnTarget(b) == [kind |-> "on", on |-> b, v |-> None]
LumenTarget(v) == [kind |-> "lumen", on |-> FALSE, v |-> v]
KelvinTarget(v) == [kind |-> "kelvin", on |-> FALSE, v |-> v]

\* mutant: the state read is written back unchanged
handle_toggle_command_SameState(is_on) == OnTarget(is_on)

\* handle_toggle_command: set_on(!is_on)
handle_toggle_command(is_on) == OnTarget(~is_on)

\* mutant: a percentage above 100 is treated as 100
DirectTarget_Clamped(dt, c) ==
    CASE c.op = "set_on" -> OnTarget(c.on)
      [] c.op \in {"set_temperature_in_kelvin", "temperature"} -> KelvinTarget(c.value)
      [] c.value # None -> LumenTarget(c.value)
      [] OTHER ->
            LumenTarget(percentage_within_range(IF c.percentage > 100 THEN 100 ELSE c.percentage,
                                                minimum_brightness_in_lumen(dt),
                                                maximum_brightness_in_lumen(dt)))

\* the set-method argument of an operation that performs no query
DirectTarget(dt, c) ==
    CASE c.op = "set_on" -> OnTarget(c.on)
      [] c.op = "set_brightness_in_lumen" -> LumenTarget(c.value)
      [] c.op = "set_temperature_in_kelvin" -> KelvinTarget(c.value)
      [] c.op = "temperature" -> KelvinTarget(c.value)
      [] c.op = "brightness" ->
            IF c.value # None
            THEN LumenTarget(c.value)
            ELSE LumenTarget(percentage_within_range(c.percentage,
                                                     minimum_brightness_in_lumen(dt),
                                                     maximum_brightness_in_lumen(dt)))

----------------------------------------------------------------------------
(* DeviceHandle set methods: validation                                    *)

\* mutant: the upper bound is not checked
BrightnessValid_NoUpperBound(dt, brightness_in_lumen) ==
    ~(brightness_in_lumen < minimum_brightness_in_lumen(dt))

BrightnessValid(dt, brightness_in_lumen) ==
    ~(brightness_in_lumen < minimum_brightness_in_lumen(dt)
      \/ brightness_in_lumen > maximum_brightness_in_lumen(dt))

\* mutant: the multiple-of-100 check is missing
TemperatureValid_NoStepCheck(dt, temperature_in_kelvin) ==
    ~(temperature_in_kelvin < minimum_temperature_in_kelvin(dt)
      \/ temperature_in_kelvin > maximum_temperature_in_kelvin(dt))

TemperatureValid(dt, temperature_in_kelvin) ==
    ~(temperature_in_kelvin < minimum_temperature_in_kelvin(dt)
      \/ temperature_in_kelvin > maximum_temperature_in_kelvin(dt)
      \/ (temperature_in_kelvin % 100) # 0)

SetFn(t) ==
    CASE t.kind = "on" -> "set_on"
      [] t.kind = "lumen" -> "set_brightness_in_lumen"
      [] t.kind = "kelvin" -> "set_temperature_in_kelvin"

\* mutant: set_temperature_in_kelvin validates nothing
ValidationError_BrightnessOnly(dt, t) ==
    IF t.kind = "lumen" /\ (t.v < minimum_brightness_in_lumen(dt)
                            \/ t.v > maximum_brightness_in_lumen(dt))
    THEN "InvalidBrightness"
    ELSE "none"

\* the validation error of the set method, "none" when the argument is accepted
ValidationError(dt, t) ==
    CASE t.kind = "lumen" /\ ~BrightnessValid(dt, t.v) -> "InvalidBrightness"
      [] t.kind = "kelvin" /\ ~TemperatureValid(dt, t.v) -> "InvalidTemperature"
      [] OTHER -> "none"

SetBytes(dt, t) ==
    CASE t.kind = "on" -> generate_set_on_bytes(dt, t.on)
      [] t.kind = "lumen" -> generate_set_brightness_in_lumen_bytes(dt, t.v)
      [] t.kind = "kelvin" -> generate_set_temperature_in_kelvin_bytes(dt, t.v)

----------------------------------------------------------------------------
(* Transport                                                                 *)

WriteEvent(fn, report, ok) ==
    [kind |-> "write", fn |-> fn, data |-> report, n |-> Len(report), ok |-> ok]

ReadEvent(fn, buf, n, ok) ==
    [kind |-> "read", fn |-> fn, data |-> buf, n |-> n, ok |-> ok]

Zeros == [i \in 1 .. ReportLen |-> 0]

\* the report the device sends: payload v big-endian at bytes 4 and 5; the
\* bytes no decoder reads are left 0
Incoming(v) == [i \in 1 .. ReportLen |->
                  IF i = 5 THEN v \div 256
                  ELSE IF i = 6 THEN v % 256 ELSE 0]

\* let mut response_buffer = [0x00; 20]; read fills its first n bytes
ReadBuffer(n, v) == [i \in 1 .. ReportLen |-> IF i <= n THEN Incoming(v)[i] ELSE 0]

NoResult == [tag |-> "none", by |-> "none", value |-> None, flag |-> FALSE]
Result(tag, by, value, flag) == [tag |-> tag, by |-> by, value |-> value, flag |-> flag]

----------------------------------------------------------------------------
(* State machine                                                           *)

\* no enumeration, classification or open has happened
NoTried == [vendor_id |-> 0, usage_page |-> 0, product_id |-> 0, out |-> "none"]
NoEnumeration == [cursor |-> 0, devices |-> <<>>]
NoOpen == [tag |-> "none", device_type |-> "none", product_id |-> 0, stale |-> FALSE]

CatalogParked ==
    /\ hid_list = <<>>
    /\ plugged = <<>>
    /\ tried = NoTried
    /\ enumerated = NoEnumeration
    /\ opened = NoOpen

SessionsParked ==
    /\ sharing = "none"
    /\ phys = [on |-> FALSE, lumen |-> 0]
    /\ inq = <<>>
    /\ cpc = <<>>
    /\ ccall = <<>>
    /\ cgot = <<>>
    /\ ctarget = <<>>
    /\ tally = <<>>

FrontendParked ==
    cache = <<>> /\ opstate = <<>> /\ tasks = <<>> /\ last = <<>> /\ preset = <<>>

HandleIdle ==
    /\ pc = "idle"
    /\ call = NoCall
    /\ target = NoTarget
    /\ io = <<>>
    /\ result = NoResult

Init ==
    /\ device_type \in DeviceType
    /\ overflow_checks \in BOOLEAN
    /\ HandleIdle
    /\ CatalogParked
    /\ FrontendParked
    /\ SessionsParked

\* The caller invokes an operation.  Operations that start with a set
\* compute its argument here (no I/O is involved in that).
BeginFrom(calls) ==
    /\ pc = "idle"
    /\ \E c \in calls :
        /\ call' = c
        /\ IF QueryFn(c.op) # "none"
           THEN pc' = "query_write" /\ target' = NoTarget
           ELSE pc' = "set" /\ target' = DirectTarget(device_type, c)
    /\ io' = <<>>
    /\ result' = NoResult
    /\ UNCHANGED <<catalog, sessions, frontend, device_type, overflow_checks>>

Begin == BeginFrom(Calls)

\* the range accessors of DeviceHandle
AccessorOps == {"minimum_brightness_in_lumen", "maximum_brightness_in_lumen",
                "minimum_temperature_in_kelvin", "maximum_temperature_in_kelvin"}

AccessorValue(op, dt) ==
    CASE op = "minimum_brightness_in_lumen" -> minimum_brightness_in_lumen(dt)
      [] op = "maximum_brightness_in_lumen" -> maximum_brightness_in_lumen(dt)
      [] op = "minimum_temperature_in_kelvin" -> minimum_temperature_in_kelvin(dt)
      [] op = "maximum_temperature_in_kelvin" -> maximum_temperature_in_kelvin(dt)

\* The caller invokes a range accessor: a match on self.device_type or a
\* constant, returned at once; the transport is not touched.
Accessor ==
    /\ pc = "idle"
    /\ \E op \in AccessorOps :
        /\ call' = [NoCall EXCEPT !.op = op]
        /\ result' = Result("Ok", op, AccessorValue(op, device_type), FALSE)
    /\ pc' = "done"
    /\ target' = NoTarget
    /\ io' = <<>>
    /\ UNCHANGED <<catalog, sessions, frontend, device_type, overflow_checks>>

\* mutant: the write's error is dropped and the read is attempted anyway
QueryWrite_IgnoreError ==
    /\ pc = "query_write"
    /\ LET fn == QueryFn(call.op)
       IN  \E ok \in BOOLEAN :
            io' = Append(io, [kind |-> "write", fn |-> fn,
                              data |-> QueryBytes(fn, device_type), n |-> 20, ok |-> ok])
    /\ pc' = "query_read"
    /\ UNCHANGED <<catalog, sessions, frontend, device_type, overflow_checks, call, target, result>>

\* is_on / brightness_in_lumen / temperature_in_kelvin:
\*   self.hid_device.write(&message)?;
QueryWrite ==
    /\ pc = "query_write"
    /\ LET fn == QueryFn(call.op)
       IN  \E ok \in BOOLEAN :
            /\ io' = Append(io, WriteEvent(fn, QueryBytes(fn, device_type), ok))
            /\ IF ok
               THEN pc' = "query_read" /\ result' = result
               ELSE pc' = "done" /\ result' = Result("HidError", fn, None, FALSE)
    /\ UNCHANGED <<catalog, sessions, frontend, device_type, overflow_checks, call, target>>

\* what the operation does with the value its query decoded
AfterQuery(op, buf) ==
    LET fn == QueryFn(op)
        checks == overflow_checks
        o == CASE op = "brightness_up" ->
                    handle_brightness_up_command(device_type, decode_u16(buf), call, checks)
               [] op = "brightness_down" ->
                    handle_brightness_down_command(device_type, decode_u16(buf), call, checks)
               [] op = "temperature_up" ->
                    handle_temperature_up_command(decode_u16(buf), call, checks)
               [] op = "temperature_down" ->
                    handle_temperature_down_command(decode_u16(buf), call, checks)
               [] OTHER -> Outcome("none", None)
    IN  CASE op = "is_on" ->
               [pc |-> "done", target |-> NoTarget,
                result |-> Result("Ok", fn, None, decode_is_on(buf))]
          [] op \in {"brightness_in_lumen", "temperature_in_kelvin"} ->
               [pc |-> "done", target |-> NoTarget,
                result |-> Result("Ok", fn, decode_u16(buf), FALSE)]
          [] op = "toggle" ->
               [pc |-> "set", target |-> handle_toggle_command(decode_is_on(buf)),
                result |-> NoResult]
          [] o.tag = "set" ->
               [pc |-> "set", result |-> NoResult,
                target |-> IF fn = "brightness_in_lumen"
                           THEN LumenTarget(o.v) ELSE KelvinTarget(o.v)]
          [] OTHER ->
               [pc |-> "done", target |-> NoTarget,
                result |-> Result(o.tag, "handler", o.v, FALSE)]

\*   let mut response_buffer = [0x00; 20];
\*   let response = self.hid_device.read(&mut response_buffer[..])?;
\*   ... response_buffer[..response][4] ...
QueryRead ==
    /\ pc = "query_read"
    /\ LET fn == QueryFn(call.op)
       IN  \/ /\ io' = Append(io, ReadEvent(fn, Zeros, 0, FALSE))
              /\ pc' = "done"
              /\ result' = Result("HidError", fn, None, FALSE)
              /\ target' = target
           \/ \E n \in ReadLens, v \in ResponseValues :
                LET buf == ReadBuffer(n, v)
                    next == AfterQuery(call.op, buf)
                IN  /\ io' = Append(io, ReadEvent(fn, buf, n, TRUE))
                    /\ IF ~InBounds(n, LastIndex(fn))
                       THEN /\ pc' = "done"
                            /\ result' = Result("Panic", fn, None, FALSE)
                            /\ target' = target
                       ELSE /\ pc' = next.pc
                            /\ result' = next.result
                            /\ target' = next.target
    /\ UNCHANGED <<catalog, sessions, frontend, device_type, overflow_checks, call>>

\* mutant: the set report is written first and validated afterwards
SetCall_WriteBeforeValidate ==
    /\ pc = "set"
    /\ LET fn  == SetFn(target)
           err == ValidationError(device_type, target)
       IN  \E ok \in BOOLEAN :
            /\ io' = Append(io, [kind |-> "write", fn |-> fn,
                                 data |-> SetBytes(device_type, target),
                                 n |-> 20, ok |-> ok])
            /\ result' = IF ~ok THEN Result("HidError", fn, None, FALSE)
                         ELSE IF err # "none" THEN Result(err, fn, target.v, FALSE)
                         ELSE Result("Ok", fn, None, FALSE)
    /\ pc' = "done"
    /\ UNCHANGED <<catalog, sessions, frontend, device_type, overflow_checks, call, target>>

\* mutant: the set method reads a confirmation back after its write
SetCall_ReadBack ==
    /\ pc = "set"
    /\ LET fn  == SetFn(target)
           err == ValidationError(device_type, target)
       IN  IF err # "none"
           THEN /\ result' = Result(err, fn, target.v, FALSE)
                /\ io' = io
           ELSE \E ok \in BOOLEAN :
                /\ io' = IF ok
                         THEN io \o << [kind |-> "write", fn |-> fn,
                                        data |-> SetBytes(device_type, target),
                                        n |-> 20, ok |-> TRUE],
                                       [kind |-> "read", fn |-> fn,
                                        data |-> Zeros, n |-> 20, ok |-> TRUE] >>
                         ELSE Append(io, [kind |-> "write", fn |-> fn,
                                          data |-> SetBytes(device_type, target),
                                          n |-> 20, ok |-> FALSE])
                /\ result' = IF ok THEN Result("Ok", fn, None, FALSE)
                             ELSE Result("HidError", fn, None, FALSE)
    /\ pc' = "done"
    /\ UNCHANGED <<catalog, sessions, frontend, device_type, overflow_checks, call, target>>

\* set_on / set_brightness_in_lumen / set_temperature_in_kelvin:
\* validate, then encode and write; nothing is read back.
SetCall ==
    /\ pc = "set"
    /\ LET fn  == SetFn(target)
           err == ValidationError(device_type, target)
       IN  IF err # "none"
           THEN /\ result' = Result(err, fn, target.v, FALSE)
                /\ io' = io
           ELSE \E ok \in BOOLEAN :
                /\ io' = Append(io, WriteEvent(fn, SetBytes(device_type, target), ok))
                /\ IF ok
                   THEN result' = Result("Ok", fn, None, FALSE)
                   ELSE result' = Result("HidError", fn, None, FALSE)
    /\ pc' = "done"
    /\ UNCHANGED <<catalog, sessions, frontend, device_type, overflow_checks, call, target>>

\* The call has returned to the caller, who is free to issue the next one.
Return ==
    /\ pc = "done"
    /\ pc' = "idle"
    /\ call' = NoCall
    /\ target' = NoTarget
    /\ io' = <<>>
    /\ result' = NoResult
    /\ UNCHANGED <<catalog, sessions, frontend, device_type, overflow_checks>>

Next == Begin \/ Accessor \/ QueryWrite \/ QueryRead \/ SetCall \/ Return

Spec == Init /\ [][Next]_vars

\* `litra brightness --percentage <u8>`: every value the argument can take
PercentageCalls ==
    {[op |-> "brightness", on |-> FALSE, value |-> None, percentage |-> p] : p \in 0 .. 255}

BeginPercentage == BeginFrom(PercentageCalls)

NextPercentage == BeginPercentage \/ SetCall \/ Return

SpecPercentage == Init /\ [][NextPercentage]_vars

----------------------------------------------------------------------------
(* Shorthands over the current call's transport log                        *)

Writes == {i \in 1 .. Len(io) : io[i].kind = "write"}
Reads  == {i \in 1 .. Len(io) : io[i].kind = "read"}
SetWrites == {i \in Writes : io[i].fn \in SetOps}

----------------------------------------------------------------------------
(* Properties                                                              *)

ValidationTags == {"InvalidBrightness", "InvalidTemperature", "CliInvalidBrightness"}

\* the u16 carried big-endian at bytes 4 and 5 of a 20-byte report
Carried(report) == report[5] * 256 + report[6]

\* [0x11, 0xFF, prefix, opcode, b0, b1, 0 x 14]
Shape(prefix, opcode, b0, b1) ==
    <<17, 255, prefix, opcode, b0, b1, 0, 0, 0, 0, 0, 0, 0, 0, 0, 0, 0, 0, 0, 0>>

\* C1: when set_brightness_in_lumen is handed a value below the minimum or
\* above the maximum brightness of the handle's device type, it returns
\* InvalidBrightness carrying exactly that value and no set report is
\* written; called on its own it issues no transport call at all.
C1_OutOfRangeBrightnessRejected ==
    (/\ pc = "done"
     /\ target.kind = "lumen"
     /\ (\/ target.v < minimum_brightness_in_lumen(device_type)
         \/ target.v > maximum_brightness_in_lumen(device_type)))
    => /\ result = Result("InvalidBrightness", "set_brightness_in_lumen", target.v, FALSE)
       /\ SetWrites = {}
       /\ call.op = "set_brightness_in_lumen" => (target.v = call.value /\ io = <<>>)

C1_Witness ==
    /\ pc = "done"
    /\ device_type = "LitraGlow"
    /\ call.op = "set_brightness_in_lumen"
    /\ call.value = 251
    /\ result.tag = "InvalidBrightness"
    /\ result.value = 251

\* C2: set_temperature_in_kelvin(v) with v below 2700, above 6500 or not a
\* multiple of 100 returns InvalidTemperature(v) without any transport call;
\* for every other v it issues exactly one transport call, the write of the
\* set-temperature report carrying v, and no read.
C2_TemperatureValidation ==
    (pc = "done" /\ call.op = "set_temperature_in_kelvin")
    => IF call.value < 2700 \/ call.value > 6500 \/ call.value % 100 # 0
       THEN /\ result = Result("InvalidTemperature", "set_temperature_in_kelvin",
                               call.value, FALSE)
            /\ io = <<>>
       ELSE /\ Len(io) = 1
            /\ io[1].kind = "write"
            /\ io[1].data[4] = 156
            /\ Carried(io[1].data) = call.value
            /\ result.tag = (IF io[1].ok THEN "Ok" ELSE "HidError")

C2_Witness ==
    /\ pc = "done"
    /\ call.op = "set_temperature_in_kelvin"
    /\ call.value = 4500
    /\ Len(io) = 1
    /\ result.tag = "Ok"

\* C3: every set-brightness report (opcode 0x4C) written by any operation
\* carries a value within [min, max] of the handle's device type, and every
\* set-temperature report (opcode 0x9C) carries a multiple of 100 within
\* [2700, 6500].
C3_WrittenValuesInRange ==
    \A i \in Writes :
        /\ io[i].data[4] = 76 =>
              /\ Carried(io[i].data) >= (IF device_type = "LitraGlow" THEN 20 ELSE 30)
              /\ Carried(io[i].data) <= (IF device_type = "LitraGlow" THEN 250 ELSE 400)
        /\ io[i].data[4] = 156 =>
              /\ Carried(io[i].data) >= 2700
              /\ Carried(io[i].data) <= 6500
              /\ Carried(io[i].data) % 100 = 0

\* a release build: 100 + 65535 wraps to 99, which passes validation
C3_Witness ==
    /\ pc = "done"
    /\ call.op = "brightness_up"
    /\ call.value = 65535
    /\ SetWrites # {}
    /\ \A i \in SetWrites : Carried(io[i].data) = 99

\* C4 as stated: whenever an operation returns a validation error, no
\* transport call was attempted in that call.
C4_NoIoBeforeValidationError ==
    (pc = "done" /\ result.tag \in ValidationTags) => io = <<>>

\* C4 as amended: whenever an operation returns a validation error, no set
\* report was written in that call, so the device is left as it was.  A
\* handle-level set or a set by value/percentage has attempted no transport
\* call at all; a brightness/temperature up/down operation has performed
\* exactly the successful write and read of its query before the error.
C4_NoSetWriteOnValidationError ==
    (pc = "done" /\ result.tag \in ValidationTags)
    => /\ SetWrites = {}
       /\ QueryFn(call.op) = "none" => io = <<>>
       /\ QueryFn(call.op) # "none" =>
            /\ Len(io) = 2
            /\ io[1].kind = "write" /\ io[1].ok /\ io[1].fn = QueryFn(call.op)
            /\ io[2].kind = "read" /\ io[2].ok /\ io[2].fn = QueryFn(call.op)

C4_Witness ==
    /\ pc = "done"
    /\ call.op = "brightness_up"
    /\ call.value = 250
    /\ result.tag = "InvalidBrightness"
    /\ Len(io) = 2

\* C5: every report written to the transport is exactly the 20 bytes
\* [0x11, 0xFF, prefix, opcode, b0, b1, 0 x 14], prefix 0x04 for Glow and
\* Beam and 0x06 for Beam LX; opcode 0x01/0x31/0x81 with b0 = b1 = 0 for the
\* power/brightness/temperature queries, 0x1C with b0 = 1 or 0 for set
\* power, 0x4C/0x9C with the value big-endian for set brightness/temperature.
C5_ReportShape ==
    \A i \in Writes :
        LET prefix == IF device_type = "LitraBeamLX" THEN 6 ELSE 4
            fn == io[i].fn
        IN  /\ io[i].n = 20
            /\ Len(io[i].data) = 20
            /\ fn = "is_on" => io[i].data = Shape(prefix, 1, 0, 0)
            /\ fn = "brightness_in_lumen" => io[i].data = Shape(prefix, 49, 0, 0)
            /\ fn = "temperature_in_kelvin" => io[i].data = Shape(prefix, 129, 0, 0)
            /\ fn = "set_on" =>
                 io[i].data = Shape(prefix, 28, IF target.on THEN 1 ELSE 0, 0)
            /\ fn = "set_brightness_in_lumen" =>
                 io[i].data = Shape(prefix, 76, target.v \div 256, target.v % 256)
            /\ fn = "set_temperature_in_kelvin" =>
                 io[i].data = Shape(prefix, 156, target.v \div 256, target.v % 256)

C5_Witness ==
    /\ device_type = "LitraBeamLX"
    /\ call.op = "set_brightness_in_lumen"
    /\ Len(io) = 1
    /\ io[1].data = <<17, 255, 6, 76, 1, 144, 0, 0, 0, 0, 0, 0, 0, 0, 0, 0, 0, 0, 0, 0>>

\* C6: for every value that passes validation, applying the query decoding
\* rule (byte 4 * 256 + byte 5) to the set-brightness or set-temperature
\* report written for it gives the value back.
C6_EncodeDecodeRoundTrip ==
    \A i \in SetWrites :
        io[i].fn \in {"set_brightness_in_lumen", "set_temperature_in_kelvin"}
        => decode_u16(io[i].data) = target.v

C6_Witness ==
    /\ call.op = "set_temperature_in_kelvin"
    /\ call.value = 6500
    /\ SetWrites # {}
    /\ \A i \in SetWrites : io[i].data[5] = 25 /\ io[i].data[6] = 100

\* C7: a query whose read delivers the bytes its decoder looks at returns
\* Ok whatever those bytes are: is_on returns true exactly when byte 4 is 1,
\* brightness_in_lumen and temperature_in_kelvin return byte 4 * 256 + byte 5
\* with no range or step check.
C7_DecodeTrustsDevice ==
    (/\ pc = "done"
     /\ call.op \in QueryOps
     /\ Len(io) = 2
     /\ io[2].ok
     /\ io[2].n > (IF call.op = "is_on" THEN 4 ELSE 5))
    => /\ result.tag = "Ok"
       /\ call.op = "is_on" => result.flag = (io[2].data[5] = 1)
       /\ call.op # "is_on" => result.value = io[2].data[5] * 256 + io[2].data[6]

C7_Witness ==
    /\ pc = "done"
    /\ device_type = "LitraGlow"
    /\ call.op = "brightness_in_lumen"
    /\ result.tag = "Ok"
    /\ result.value = 65535

\* C8: each DeviceHandle method issues at most one write and at most one
\* read, the read only directly after its own successful write; a failed
\* transport call is the last one of the operation, which returns HidError.
C8_OneWriteOneReadNoRetry ==
    /\ \A i, j \in 1 .. Len(io) :
            (io[i].fn = io[j].fn /\ io[i].kind = io[j].kind) => i = j
    /\ \A i \in Reads :
            /\ i > 1
            /\ io[i - 1].kind = "write"
            /\ io[i - 1].fn = io[i].fn
            /\ io[i - 1].ok
    /\ \A i \in 1 .. Len(io) :
            ~io[i].ok => /\ i = Len(io)
                         /\ pc = "done"
                         /\ result = Result("HidError", io[i].fn, None, FALSE)

C8_Witness ==
    /\ pc = "done"
    /\ call.op = "brightness_in_lumen"
    /\ Len(io) = 1
    /\ ~io[1].ok
    /\ result.tag = "HidError"

\* C9: set_on(b) issues exactly one transport call, the write of the
\* set-power report carrying b; a set_brightness_in_lumen or
\* set_temperature_in_kelvin that passes validation issues exactly one
\* write; no set method ever reads from the transport.
C9_SetIsWriteOnly ==
    /\ (pc = "done" /\ call.op = "set_on") =>
            /\ Len(io) = 1
            /\ io[1].kind = "write"
            /\ io[1].data[4] = 28
            /\ io[1].data[5] = (IF call.on THEN 1 ELSE 0)
    /\ (/\ pc = "done"
        /\ call.op \in {"set_brightness_in_lumen", "set_temperature_in_kelvin"}
        /\ result.tag \notin ValidationTags) =>
            /\ Len(io) = 1
            /\ io[1].kind = "write"
            /\ io[1].fn = call.op
    /\ \A i \in Reads : io[i].fn \notin SetOps
    /\ pc = "done" => Cardinality(SetWrites) <= 1

C9_Witness ==
    /\ pc = "done"
    /\ call.op = "set_on"
    /\ call.on
    /\ result.tag = "Ok"
    /\ Len(io) = 1

\* C10: is_on, brightness_in_lumen and temperature_in_kelvin return either
\* a decoded value or a transport error, whatever the transport does,
\* including a successful read of fewer than 20 bytes; they never panic.
C10_QueryNeverPanics ==
    (pc = "done" /\ call.op \in QueryOps) => result.tag \in {"Ok", "HidError"}

\* the ranges of each model: brightness in lumen, temperature in kelvin
RangeTable(dt) ==
    IF dt = "LitraGlow"
    THEN [min_lm |-> 20, max_lm |-> 250, min_k |-> 2700, max_k |-> 6500]
    ELSE [min_lm |-> 30, max_lm |-> 400, min_k |-> 2700, max_k |-> 6500]

\* C16: the minimum brightness is below the maximum; the brightness range
\* is (20, 250) lm on the Glow and (30, 400) lm on the Beam and Beam LX; the
\* temperature range is (2700, 6500) K on all; the four accessors return
\* these values after any sequence of operations and perform no I/O.
C16_RangeAccessors ==
    /\ \A dt \in DeviceType :
          /\ minimum_brightness_in_lumen(dt) < maximum_brightness_in_lumen(dt)
          /\ minimum_brightness_in_lumen(dt) = RangeTable(dt).min_lm
          /\ maximum_brightness_in_lumen(dt) = RangeTable(dt).max_lm
          /\ minimum_temperature_in_kelvin(dt) = RangeTable(dt).min_k
          /\ maximum_temperature_in_kelvin(dt) = RangeTable(dt).max_k
    /\ (pc = "done" /\ call.op \in AccessorOps) =>
          /\ result.tag = "Ok"
          /\ io = <<>>
          /\ result.value =
                CASE call.op = "minimum_brightness_in_lumen" -> RangeTable(device_type).min_lm
                  [] call.op = "maximum_brightness_in_lumen" -> RangeTable(device_type).max_lm
                  [] call.op = "minimum_temperature_in_kelvin" -> RangeTable(device_type).min_k
                  [] call.op = "maximum_temperature_in_kelvin" -> RangeTable(device_type).max_k

C16_Witness ==
    /\ pc = "done"
    /\ call.op = "maximum_brightness_in_lumen"
    /\ device_type = "LitraBeamLX"
    /\ result.value = 400
    /\ io = <<>>

\* a brightness-by-percentage call whose percentage has been converted
PercentageConverted ==
    /\ pc \in {"set", "done"}
    /\ call.op = "brightness"
    /\ call.percentage # None

\* C17: for p in 0..100 and the two brightness ranges, the value computed
\* from a percentage is start + p * (end - start) / 100 rounded to the
\* nearest integer, halves away from zero; 0 gives the minimum and 100 the
\* maximum.
C17_PercentageToValue ==
    (PercentageConverted /\ call.percentage <= 100) =>
        LET start == RangeTable(device_type).min_lm
            end   == RangeTable(device_type).max_lm
            exact100 == 100 * start + call.percentage * (end - start)
        IN  /\ 100 * target.v - 50 <= exact100
            /\ exact100 < 100 * target.v + 50
            /\ call.percentage = 0 => target.v = start
            /\ call.percentage = 100 => target.v = end

\* 5 % of the Glow's range is 31.5 lm, a half, which rounds up to 32
C17_Witness ==
    /\ PercentageConverted
    /\ device_type = "LitraGlow"
    /\ call.percentage = 5
    /\ target.v = 32

\* C18: setting the brightness by a percentage p in 0..100 writes exactly
\* one set-brightness report, carrying the value computed from p, and never
\* fails validation; p in 101..255 fails with InvalidBrightness and writes
\* nothing.
C18_BrightnessByPercentage ==
    (pc = "done" /\ call.op = "brightness" /\ call.percentage # None) =>
        IF call.percentage <= 100
        THEN /\ result.tag \in {"Ok", "HidError"}
             /\ Len(io) = 1
             /\ io[1].kind = "write"
             /\ io[1].fn = "set_brightness_in_lumen"
             /\ Shape(IF device_type = "LitraBeamLX" THEN 6 ELSE 4, 76, 0, 0)
                    = [io[1].data EXCEPT ![5] = 0, ![6] = 0]
             /\ Carried(io[1].data) = target.v
             /\ 100 * target.v - 50 <= 100 * RangeTable(device_type).min_lm
                    + call.percentage * (RangeTable(device_type).max_lm
                                         - RangeTable(device_type).min_lm)
             /\ 100 * RangeTable(device_type).min_lm
                    + call.percentage * (RangeTable(device_type).max_lm
                                         - RangeTable(device_type).min_lm)
                    < 100 * target.v + 50
        ELSE /\ result.tag = "InvalidBrightness"
             /\ io = <<>>

C18_Witness ==
    /\ pc = "done"
    /\ call.op = "brightness"
    /\ call.percentage = 101
    /\ device_type = "LitraBeam"
    /\ result.tag = "InvalidBrightness"
    /\ result.value = 404
    /\ io = <<>>

\* a brightness up/down command whose query decoded a current brightness
CurrentRead ==
    /\ call.op \in {"brightness_up", "brightness_down"}
    /\ Len(io) >= 2
    /\ io[2].kind = "read"
    /\ io[2].ok
    /\ io[2].n >= 6

\* the current brightness the query returned
CurrentLumen == Carried(io[2].data)

\* the lumen a percentage of the range amounts to
PercentageLumen ==
    percentage_within_range(call.percentage, RangeTable(device_type).min_lm,
                            RangeTable(device_type).max_lm)
    - RangeTable(device_type).min_lm

\* what the command should hand to the set method (an integer, unbounded)
WantedLumen ==
    LET delta == IF call.value # None THEN call.value ELSE PercentageLumen
    IN  IF call.op = "brightness_down" THEN CurrentLumen - delta ELSE CurrentLumen + delta

\* C19: brightness down by a percentage p reads the current lumens c,
\* takes delta = (value of p in the range) - min and writes a set-brightness
\* report carrying exactly c - delta when min <= c - delta <= max;
\* brightness up uses the same delta and writes c + delta under the same
\* condition.
C19_PercentageStep ==
    (/\ pc = "done"
     /\ CurrentRead
     /\ call.percentage # None
     /\ RangeTable(device_type).min_lm <= WantedLumen
     /\ WantedLumen <= RangeTable(device_type).max_lm) =>
        /\ result.tag \in {"Ok", "HidError"}
        /\ Len(io) = 3
        /\ io[1].kind = "write" /\ io[1].fn = "brightness_in_lumen"
        /\ io[3].kind = "write" /\ io[3].fn = "set_brightness_in_lumen"
        /\ Carried(io[3].data) = WantedLumen
        /\ io[3].data = Shape(IF device_type = "LitraBeamLX" THEN 6 ELSE 4, 76,
                              WantedLumen \div 256, WantedLumen % 256)

\* Glow at 100 lm, down by 10 %: delta 23, 77 written
C19_Witness ==
    /\ pc = "done"
    /\ CurrentRead
    /\ device_type = "LitraGlow"
    /\ call.op = "brightness_down"
    /\ call.percentage = 10
    /\ CurrentLumen = 100
    /\ PercentageLumen = 23
    /\ Len(io) = 3
    /\ Carried(io[3].data) = 77
    /\ result.tag = "Ok"

\* C20: brightness down by a value or by a percentage fails with an
\* invalid-brightness error and writes no set report whenever current -
\* delta is negative; the subtraction never wraps to an unsigned value.
C20_DownNeverWraps ==
    (/\ pc = "done"
     /\ CurrentRead
     /\ call.op = "brightness_down"
     /\ WantedLumen < 0) =>
        /\ result.tag \in {"InvalidBrightness", "CliInvalidBrightness"}
        /\ SetWrites = {}

\* outcomes in which the command ends without having set anything
ErrorTags == ValidationTags \cup {"HidError", "Panic"}

\* C21: brightness up by any u16 value or any percentage ends in an error
\* whenever current + delta exceeds the maximum brightness, otherwise
\* writes a set-brightness report carrying exactly current + delta, and
\* never writes a value below the current brightness.
C21_UpNeverLowers ==
    (/\ pc = "done"
     /\ CurrentRead
     /\ call.op = "brightness_up") =>
        /\ WantedLumen > RangeTable(device_type).max_lm =>
              (result.tag \in ErrorTags /\ SetWrites = {})
        /\ (/\ RangeTable(device_type).min_lm <= WantedLumen
            /\ WantedLumen <= RangeTable(device_type).max_lm) =>
              (Len(io) = 3 /\ SetWrites = {3} /\ Carried(io[3].data) = WantedLumen)
        /\ \A i \in SetWrites : Carried(io[i].data) >= CurrentLumen

\* a temperature up/down command whose query decoded a current temperature
CurrentKelvinRead ==
    /\ call.op \in {"temperature_up", "temperature_down"}
    /\ Len(io) >= 2
    /\ io[2].kind = "read"
    /\ io[2].ok
    /\ io[2].n >= 6

\* the current temperature the query returned
CurrentKelvin == Carried(io[2].data)

\* what the command should hand to the set method (an integer, unbounded)
WantedKelvin ==
    IF call.op = "temperature_down"
    THEN CurrentKelvin - call.value
    ELSE CurrentKelvin + call.value

\* C22: for every u16 delta d and current temperature c, temperature up
\* ends in an error whenever c + d > 6500 and temperature down whenever
\* c - d < 2700; a set-temperature report that is written carries exactly
\* c + d (resp. c - d), so up never lowers and down never raises.
C22_TemperatureStepExact ==
    (pc = "done" /\ CurrentKelvinRead) =>
        /\ (call.op = "temperature_up" /\ WantedKelvin > 6500) =>
              (result.tag \in ErrorTags /\ SetWrites = {})
        /\ (call.op = "temperature_down" /\ WantedKelvin < 2700) =>
              (result.tag \in ErrorTags /\ SetWrites = {})
        /\ \A i \in SetWrites :
              /\ Carried(io[i].data) = WantedKelvin
              /\ call.op = "temperature_up" => Carried(io[i].data) >= CurrentKelvin
              /\ call.op = "temperature_down" => Carried(io[i].data) <= CurrentKelvin

\* C23: temperature up/down never rounds: when the current temperature is
\* a multiple of 100 and the delta is not, the command fails with
\* InvalidTemperature and writes no set report; when c +/- d lies in
\* [2700, 6500] and is a multiple of 100, exactly that value is written.
C23_TemperatureNeverRounds ==
    (pc = "done" /\ CurrentKelvinRead) =>
        /\ (CurrentKelvin % 100 = 0 /\ call.value % 100 # 0) =>
              (result.tag \in {"InvalidTemperature", "Panic"} /\ SetWrites = {})
        /\ (/\ 2700 <= WantedKelvin
            /\ WantedKelvin <= 6500
            /\ WantedKelvin % 100 = 0) =>
              (Len(io) = 3 /\ SetWrites = {3} /\ Carried(io[3].data) = WantedKelvin)

----------------------------------------------------------------------------
(* Device catalog (lib.rs): Litra context, Device::try_from, Device::open  *)

VENDOR_ID == 1133       \* 0x046d
USAGE_PAGE == 65347     \* 0xff43

\* longest device list the transport reports
MaxList == 2

\* mutant: the 0xb901 arm is missing
device_type_from_product_id_NoB901(product_id) ==
    CASE product_id = 51456 -> "LitraGlow"
      [] product_id = 51457 -> "LitraBeam"
      [] product_id = 51459 -> "LitraBeamLX"
      [] OTHER -> "None"

device_type_from_product_id(product_id) ==
    CASE product_id = 51456 -> "LitraGlow"      \* 0xc900
      [] product_id = 51457 -> "LitraBeam"      \* 0xc901
      [] product_id = 47361 -> "LitraBeam"      \* 0xb901
      [] product_id = 51459 -> "LitraBeamLX"    \* 0xc903
      [] OTHER -> "None"

\* mutant: the usage page is not compared
try_from_AnyUsagePage(device_info) ==
    IF device_info.vendor_id # VENDOR_ID
    THEN "Unsupported"
    ELSE IF device_type_from_product_id(device_info.product_id) = "None"
         THEN "Unsupported"
         ELSE device_type_from_product_id(device_info.product_id)

\* impl TryFrom<&DeviceInfo> for Device: the DeviceType, or "Unsupported"
try_from(device_info) ==
    IF device_info.vendor_id # VENDOR_ID \/ device_info.usage_page # USAGE_PAGE
    THEN "Unsupported"
    ELSE IF device_type_from_product_id(device_info.product_id) = "None"
         THEN "Unsupported"
         ELSE device_type_from_product_id(device_info.product_id)

DeviceInfo(v, u, p) == [vendor_id |-> v, usage_page |-> u, product_id |-> p]

\* HID interfaces the transport may list: every known product and two
\* unknown ones under Logitech's vendor id and the Litra usage page, and
\* known products under another vendor id and/or usage page
DeviceInfos ==
    {DeviceInfo(VENDOR_ID, USAGE_PAGE, p) : p \in {51456, 51457, 47361, 51459, 4660, 51458}}
    \cup {DeviceInfo(4660, USAGE_PAGE, p) : p \in {51456, 51459}}
    \cup {DeviceInfo(VENDOR_ID, 1, p) : p \in {51456, 51459}}
    \cup {DeviceInfo(4660, 1, p) : p \in {51456, 51459}}

DeviceLists == UNION {[1 .. n -> DeviceInfos] : n \in 0 .. MaxList}

\* mutant: open succeeds without looking at the transport's answer
open_IgnoreTransport(device, present) ==
    [tag |-> "Ok", device_type |-> device.device_type,
     product_id |-> device.product_id, stale |-> ~present]

\* Device::open: open_device(...)? then DeviceHandle { hid_device, device_type };
\* the transport can open only a device that is still attached
open(device, present) ==
    IF present
    THEN [tag |-> "Ok", device_type |-> device.device_type,
          product_id |-> device.product_id, stale |-> FALSE]
    ELSE [tag |-> "HidError", device_type |-> "none",
          product_id |-> device.product_id, stale |-> TRUE]

\* Litra::new: HidApi::new() takes the list of attached interfaces
InitCatalog ==
    /\ device_type = "LitraGlow"
    /\ overflow_checks = FALSE
    /\ HandleIdle
    /\ SessionsParked
    /\ FrontendParked
    /\ hid_list \in DeviceLists
    /\ plugged = [i \in 1 .. Len(hid_list) |-> TRUE]
    /\ tried = NoTried
    /\ enumerated = NoEnumeration
    /\ opened = NoOpen

\* the entries of the cached list whose device is still attached, in order
RECURSIVE StillAttached(_, _)
StillAttached(list, present) ==
    IF list = <<>>
    THEN <<>>
    ELSE IF Head(present)
         THEN <<Head(list)>> \o StillAttached(Tail(list), Tail(present))
         ELSE StillAttached(Tail(list), Tail(present))

\* Litra::refresh_connected_devices (&mut self: no Device borrowed from the
\* old list survives it; an open DeviceHandle does).  The new list holds the
\* devices still attached and any device plugged in since.
RefreshConnectedDevices ==
    /\ \E plugged_in \in {<<>>} \cup {<<d>> : d \in DeviceInfos} :
        /\ Len(StillAttached(hid_list, plugged)) + Len(plugged_in) <= MaxList
        /\ hid_list' = StillAttached(hid_list, plugged) \o plugged_in
        /\ plugged' = [i \in 1 .. Len(hid_list') |-> TRUE]
    /\ tried' = NoTried
    /\ enumerated' = NoEnumeration
    /\ UNCHANGED <<opened, sessions, frontend, handle>>

\* a listed device is unplugged; the cached list is not told
Unplug ==
    /\ \E i \in 1 .. Len(hid_list) :
        /\ plugged[i]
        /\ plugged' = [plugged EXCEPT ![i] = FALSE]
    /\ UNCHANGED <<hid_list, tried, enumerated, opened, sessions, frontend, handle>>

\* Litra::get_connected_devices: a fresh iterator over device_list()
GetConnectedDevices ==
    /\ enumerated' = [cursor |-> 1, devices |-> <<>>]
    /\ tried' = NoTried
    /\ UNCHANGED <<hid_list, plugged, opened, sessions, frontend, handle>>

\* one step of the iterator: filter_map(|device_info| Device::try_from(device_info).ok())
IteratorNext ==
    /\ enumerated.cursor \in 1 .. Len(hid_list)
    /\ LET device_info == hid_list[enumerated.cursor]
           out == try_from(device_info)
       IN  /\ tried' = [vendor_id |-> device_info.vendor_id,
                        usage_page |-> device_info.usage_page,
                        product_id |-> device_info.product_id,
                        out |-> out]
           /\ enumerated' =
                [cursor |-> enumerated.cursor + 1,
                 devices |-> IF out = "Unsupported"
                             THEN enumerated.devices
                             ELSE Append(enumerated.devices,
                                         [info |-> enumerated.cursor,
                                          product_id |-> device_info.product_id,
                                          device_type |-> out])]
    /\ UNCHANGED <<hid_list, plugged, opened, sessions, frontend, handle>>

\* Device::open on a descriptor the iterator produced
Open ==
    /\ opened.tag # "Ok"
    /\ \E k \in 1 .. Len(enumerated.devices) :
        opened' = open(enumerated.devices[k], plugged[enumerated.devices[k].info])
    /\ UNCHANGED <<hid_list, plugged, tried, enumerated, sessions, frontend, handle>>

\* the DeviceHandle is dropped
Close ==
    /\ opened.tag = "Ok"
    /\ opened' = NoOpen
    /\ UNCHANGED <<hid_list, plugged, tried, enumerated, sessions, frontend, handle>>

NextCatalog ==
    RefreshConnectedDevices \/ Unplug \/ GetConnectedDevices \/ IteratorNext \/ Open \/ Close

SpecCatalog == InitCatalog /\ [][NextCatalog]_vars

----------------------------------------------------------------------------
(* Properties of the device catalog                                        *)

\* the four supported product ids
SupportedProducts == {51456, 51457, 47361, 51459}

\* the type the catalog assigns to a supported product id
ProductType(product_id) ==
    CASE product_id = 51456 -> "LitraGlow"
      [] product_id \in {51457, 47361} -> "LitraBeam"
      [] product_id = 51459 -> "LitraBeamLX"

\* what classification should answer for an interface
Classified(vendor_id, usage_page, product_id) ==
    IF vendor_id = 1133 /\ usage_page = 65347 /\ product_id \in SupportedProducts
    THEN ProductType(product_id)
    ELSE "Unsupported"

\* C13: classifying (vendor id, usage page, product id) returns a DeviceType
\* exactly when the vendor id is 0x046D, the usage page is 0xFF43 and the
\* product id is 0xC900 (Glow), 0xC901 (Beam), 0xB901 (Beam) or 0xC903
\* (Beam LX); every other combination is unsupported.
C13_Classification ==
    tried.out # "none" =>
        /\ tried.out = Classified(tried.vendor_id, tried.usage_page, tried.product_id)
        /\ tried.out \in DeviceType <=>
              /\ tried.vendor_id = 1133
              /\ tried.usage_page = 65347
              /\ tried.product_id \in SupportedProducts

C13_Witness ==
    /\ tried.vendor_id = 1133
    /\ tried.usage_page = 65347
    /\ tried.product_id = 47361
    /\ tried.out = "LitraBeam"

\* the supported interfaces among the first n of a list, in the list's
\* order, each with its type
RECURSIVE SupportedPrefix(_, _)
SupportedPrefix(list, n) ==
    IF n = 0
    THEN <<>>
    ELSE LET d == list[n]
             t == Classified(d.vendor_id, d.usage_page, d.product_id)
         IN  IF t = "Unsupported"
             THEN SupportedPrefix(list, n - 1)
             ELSE Append(SupportedPrefix(list, n - 1),
                         [info |-> n, product_id |-> d.product_id, device_type |-> t])

\* a step of an enumeration: the iterator is created or advanced
EnumerationStep ==
    /\ enumerated' # enumerated
    /\ enumerated'.cursor >= 1

\* C14: enumeration yields exactly the interfaces that classify to a type,
\* each paired with that type, in the transport's order; unsupported
\* interfaces are skipped; enumerating changes neither the cached list, the
\* devices nor an open handle; so two enumerations of an unchanged list
\* yield the same sequence.
C14_EnumerationFilters ==
    /\ [](enumerated.cursor >= 1 =>
            /\ enumerated.cursor <= Len(hid_list) + 1
            /\ enumerated.devices = SupportedPrefix(hid_list, enumerated.cursor - 1))
    /\ [][EnumerationStep => UNCHANGED <<hid_list, plugged, opened>>]_vars

C14_Witness ==
    /\ Len(hid_list) = 2
    /\ enumerated.cursor = 3
    /\ Classified(hid_list[1].vendor_id, hid_list[1].usage_page,
                  hid_list[1].product_id) = "Unsupported"
    /\ Len(enumerated.devices) = 1
    /\ enumerated.devices[1].info = 2
    /\ enumerated.devices[1].device_type = "LitraBeamLX"

\* C15: opening a descriptor whose device is gone returns a transport error
\* and creates no handle; a created handle carries its descriptor's
\* DeviceType, which never changes while the handle lives.
C15_OpenStaleAndType ==
    /\ [](/\ opened.stale => (opened.tag = "HidError" /\ opened.device_type = "none")
          /\ opened.tag \in {"none", "Ok", "HidError"}
          /\ opened.tag = "Ok" =>
                /\ opened.product_id \in SupportedProducts
                /\ opened.device_type = ProductType(opened.product_id))
    /\ [][(opened.tag = "Ok" /\ opened'.tag = "Ok") => opened' = opened]_vars

C15_Witness ==
    /\ opened.tag = "HidError"
    /\ opened.stale
    /\ opened.device_type = "none"
    /\ enumerated.cursor >= 1

----------------------------------------------------------------------------
(* Two callers and one physical device.  The device conforms to the        *)
(* protocol and the transport does not fail here: a query report is        *)
(* answered by an input report queued on the connection it arrived on, a   *)
(* set report is applied.  Each caller runs the same write-then-read and   *)
(* read-then-write code as above.                                          *)

Callers == {1, 2}

\* operations each caller may start
MaxCalls == 2

\* brightness of the device when the callers start
StartLumen == 100

\* `brightness-up --value`
StepLumen == 10

SharingModes == {"serialized", "unserialized", "two_handles"}

SessionOps == {"is_on", "brightness_in_lumen", "toggle", "brightness_up"}

SessionCall(op) ==
    [op |-> op, on |-> FALSE, percentage |-> None,
     value |-> IF op = "brightness_up" THEN StepLumen ELSE None]

\* the connection a caller uses: one shared DeviceHandle, or a handle each
HandleOf(c) == IF sharing = "two_handles" THEN c ELSE 1

NoGot == [from |-> 0, fn |-> "none", value |-> None, flag |-> FALSE, tag |-> "none"]

InitSessions ==
    /\ device_type = "LitraGlow"
    /\ overflow_checks = FALSE
    /\ HandleIdle
    /\ CatalogParked
    /\ FrontendParked
    /\ sharing \in SharingModes
    /\ phys \in [on : BOOLEAN, lumen : {StartLumen}]
    /\ inq = [h \in Callers |-> <<>>]
    /\ cpc = [c \in Callers |-> "idle"]
    /\ ccall = [c \in Callers |-> NoCall]
    /\ cgot = [c \in Callers |-> NoGot]
    /\ ctarget = [c \in Callers |-> NoTarget]
    /\ tally = [begun |-> [c \in Callers |-> 0], on0 |-> phys.on,
                ups |-> 0, toggles |-> 0, stale |-> 0]

\* callers that serialize their use of the shared handle start an operation
\* only when no other operation is in progress
MayBegin(c) == sharing = "serialized" => \A o \in Callers : cpc[o] = "idle"

CBegin(c) ==
    /\ cpc[c] = "idle"
    /\ tally.begun[c] < MaxCalls
    /\ MayBegin(c)
    /\ \E op \in SessionOps : ccall' = [ccall EXCEPT ![c] = SessionCall(op)]
    /\ cpc' = [cpc EXCEPT ![c] = "query_write"]
    /\ cgot' = [cgot EXCEPT ![c] = NoGot]
    /\ ctarget' = [ctarget EXCEPT ![c] = NoTarget]
    /\ tally' = [tally EXCEPT !.begun[c] = @ + 1]
    /\ UNCHANGED <<sharing, phys, inq, catalog, frontend, handle>>

\* the input report the device sends in answer to a query report
DeviceAnswer(report) ==
    CASE report[4] = 1  -> Incoming(IF phys.on THEN 256 ELSE 0)
      [] report[4] = 49 -> Incoming(phys.lumen)

\* the device's state after a set report
DeviceApply(report) ==
    CASE report[4] = 28 -> [phys EXCEPT !.on = (report[5] = 1)]
      [] report[4] = 76 -> [phys EXCEPT !.lumen = report[5] * 256 + report[6]]

Pending(c, fn) ==
    [req |-> c, fn |-> fn, data |-> DeviceAnswer(QueryBytes(fn, device_type))]

\* mutant: the request report is written twice
CQueryWrite_Twice(c) ==
    /\ cpc[c] = "query_write"
    /\ LET fn == QueryFn(ccall[c].op)
       IN  inq' = [inq EXCEPT ![HandleOf(c)] = @ \o <<Pending(c, fn), Pending(c, fn)>>]
    /\ cpc' = [cpc EXCEPT ![c] = "query_read"]
    /\ UNCHANGED <<sharing, phys, ccall, cgot, ctarget, tally, catalog, frontend, handle>>

\* self.hid_device.write(&message)?  -- the device answers on this connection
CQueryWrite(c) ==
    /\ cpc[c] = "query_write"
    /\ LET fn == QueryFn(ccall[c].op)
       IN  inq' = [inq EXCEPT ![HandleOf(c)] = Append(@, Pending(c, fn))]
    /\ cpc' = [cpc EXCEPT ![c] = "query_read"]
    /\ UNCHANGED <<sharing, phys, ccall, cgot, ctarget, tally, catalog, frontend, handle>>

\* self.hid_device.read(&mut response_buffer[..])?  -- blocks until the
\* connection has an input report and takes the oldest one; the handler
\* then computes what to set from the decoded value
CQueryRead(c) ==
    /\ cpc[c] = "query_read"
    /\ inq[HandleOf(c)] # <<>>
    /\ LET resp == Head(inq[HandleOf(c)])
           op   == ccall[c].op
           got  == [from |-> resp.req, fn |-> resp.fn, value |-> decode_u16(resp.data),
                    flag |-> decode_is_on(resp.data), tag |-> "none"]
           o    == IF op = "brightness_up"
                   THEN handle_brightness_up_command(device_type, decode_u16(resp.data),
                                                     ccall[c], overflow_checks)
                   ELSE Outcome("none", None)
       IN  /\ inq' = [inq EXCEPT ![HandleOf(c)] = Tail(@)]
           /\ CASE op \in QueryOps ->
                    /\ cgot' = [cgot EXCEPT ![c] = [got EXCEPT !.tag = "Ok"]]
                    /\ cpc' = [cpc EXCEPT ![c] = "done"]
                    /\ ctarget' = ctarget
                [] op = "toggle" ->
                    /\ cgot' = [cgot EXCEPT ![c] = got]
                    /\ cpc' = [cpc EXCEPT ![c] = "set"]
                    /\ ctarget' = [ctarget EXCEPT ![c] = handle_toggle_command(got.flag)]
                [] op = "brightness_up" /\ o.tag = "set" ->
                    /\ cgot' = [cgot EXCEPT ![c] = got]
                    /\ cpc' = [cpc EXCEPT ![c] = "set"]
                    /\ ctarget' = [ctarget EXCEPT ![c] = LumenTarget(o.v)]
                [] OTHER ->
                    /\ cgot' = [cgot EXCEPT ![c] = [got EXCEPT !.tag = o.tag]]
                    /\ cpc' = [cpc EXCEPT ![c] = "done"]
                    /\ ctarget' = ctarget
    /\ UNCHANGED <<sharing, phys, ccall, tally, catalog, frontend, handle>>

\* the value the operation read no longer is the device's value
StaleRead(c) ==
    IF ccall[c].op = "toggle"
    THEN cgot[c].flag # phys.on
    ELSE cgot[c].value # phys.lumen

\* set_on / set_brightness_in_lumen: validate, encode, write; the device
\* applies the report
CSetCall(c) ==
    /\ cpc[c] = "set"
    /\ LET err == ValidationError(device_type, ctarget[c])
       IN  IF err # "none"
           THEN /\ cgot' = [cgot EXCEPT ![c].tag = err]
                /\ UNCHANGED <<phys, tally>>
           ELSE /\ cgot' = [cgot EXCEPT ![c].tag = "Ok"]
                /\ phys' = DeviceApply(SetBytes(device_type, ctarget[c]))
                /\ tally' = [tally EXCEPT
                               !.ups = IF ccall[c].op = "brightness_up" THEN @ + 1 ELSE @,
                               !.toggles = IF ccall[c].op = "toggle" THEN @ + 1 ELSE @,
                               !.stale = IF StaleRead(c) THEN @ + 1 ELSE @]
    /\ cpc' = [cpc EXCEPT ![c] = "done"]
    /\ UNCHANGED <<sharing, inq, ccall, ctarget, catalog, frontend, handle>>

\* the operation has returned to its caller
CReturn(c) ==
    /\ cpc[c] = "done"
    /\ cpc' = [cpc EXCEPT ![c] = "idle"]
    /\ ccall' = [ccall EXCEPT ![c] = NoCall]
    /\ cgot' = [cgot EXCEPT ![c] = NoGot]
    /\ ctarget' = [ctarget EXCEPT ![c] = NoTarget]
    /\ UNCHANGED <<sharing, phys, inq, tally, catalog, frontend, handle>>

NextSessions ==
    \E c \in Callers :
        CBegin(c) \/ CQueryWrite(c) \/ CQueryRead(c) \/ CSetCall(c) \/ CReturn(c)

SpecSessions == InitSessions /\ [][NextSessions]_vars

----------------------------------------------------------------------------
(* Properties of shared use                                                *)

\* callers whose query has decoded a response
Answered == {c \in Callers : cgot[c].from # 0}

\* C11: when the operations on one DeviceHandle are serialized, every query
\* returns the decoding of the response to its own request report.  (That
\* two callers sharing a handle without serialization can each be handed
\* the response to the other's request is the reachable state C11_Witness.)
C11_ResponsePairing ==
    sharing = "serialized" =>
        /\ \A c \in Answered :
              /\ cgot[c].from = c
              /\ cgot[c].fn = QueryFn(ccall[c].op)
        /\ \A c \in Callers :
              (cpc[c] = "done" /\ ccall[c].op = "brightness_in_lumen") =>
                  cgot[c].value = phys.lumen
        /\ \A c \in Callers :
              (cpc[c] = "done" /\ ccall[c].op = "is_on") => cgot[c].flag = phys.on

\* caller 2 asked for the power state, caller 1 for the brightness, and
\* caller 1 decoded the answer to caller 2's request as a brightness
C11_Witness ==
    /\ sharing = "unserialized"
    /\ cpc[1] = "done"
    /\ ccall[1].op = "brightness_in_lumen"
    /\ ccall[2].op = "is_on"
    /\ cgot[1].from = 2
    /\ cgot[1].tag = "Ok"
    /\ cgot[1].value # phys.lumen

\* XOR
Differ(a, b) == (a /\ ~b) \/ (~a /\ b)

\* C12: a compound operation is a read followed by a write computed from
\* the value read; as long as no write was computed from a stale read the
\* device reflects every update, which serialized use of one handle
\* guarantees.  (That two handles on one device lose an update is the
\* reachable state C12_Witness.)
C12_ReadThenWrite ==
    /\ \A c \in Callers :
          cpc[c] = "set" =>
              /\ ccall[c].op = "toggle" => ctarget[c] = OnTarget(~cgot[c].flag)
              /\ ccall[c].op = "brightness_up" =>
                    ctarget[c] = LumenTarget(cgot[c].value + StepLumen)
    /\ sharing = "serialized" => tally.stale = 0
    /\ tally.stale = 0 =>
          /\ phys.lumen = StartLumen + StepLumen * tally.ups
          /\ phys.on = Differ(tally.on0, tally.toggles % 2 = 1)

\* both handles raised the brightness by StepLumen, each handle's caller
\* ran one operation at a time, and the device is only one step brighter
C12_Witness ==
    /\ sharing = "two_handles"
    /\ \A c \in Callers :
          /\ cpc[c] = "done"
          /\ ccall[c].op = "brightness_up"
          /\ cgot[c].tag = "Ok"
          /\ cgot[c].from = c
          /\ tally.begun[c] = 1
    /\ tally.ups = 2
    /\ tally.stale = 1
    /\ phys.lumen = StartLumen + StepLumen

----------------------------------------------------------------------------
(* `litra toggle` against a device that answers the power query with its   *)
(* power state and applies the set-power report; the handle is the only    *)
(* writer.  The transport may fail or deliver a short report.              *)

\* toggles issued in a row
MaxToggles == 3

ToggleCall == [op |-> "toggle", on |-> FALSE, value |-> None, percentage |-> None]

InitToggle ==
    /\ device_type \in DeviceType
    /\ overflow_checks = FALSE
    /\ HandleIdle
    /\ CatalogParked
    /\ FrontendParked
    /\ sharing = "none"
    /\ phys \in [on : BOOLEAN, lumen : {StartLumen}]
    /\ inq = <<>> /\ cpc = <<>> /\ ccall = <<>> /\ cgot = <<>> /\ ctarget = <<>>
    /\ tally = [begun |-> 0, on0 |-> phys.on, before |-> phys.on, applied |-> 0]

ToggleIdle == <<sharing, inq, cpc, ccall, cgot, ctarget, catalog, frontend, device_type, overflow_checks>>

\* handle_toggle_command is invoked
ToggleBegin ==
    /\ pc = "idle"
    /\ tally.begun < MaxToggles
    /\ call' = ToggleCall
    /\ pc' = "query_write"
    /\ target' = NoTarget
    /\ io' = <<>>
    /\ result' = NoResult
    /\ tally' = [tally EXCEPT !.begun = @ + 1, !.before = phys.on]
    /\ UNCHANGED <<phys, ToggleIdle>>

\* is_on: self.hid_device.write(&message)?
ToggleQueryWrite ==
    /\ pc = "query_write"
    /\ \E ok \in BOOLEAN :
        /\ io' = Append(io, WriteEvent("is_on", QueryBytes("is_on", device_type), ok))
        /\ IF ok
           THEN pc' = "query_read" /\ result' = result
           ELSE pc' = "done" /\ result' = Result("HidError", "is_on", None, FALSE)
    /\ UNCHANGED <<call, target, phys, tally, ToggleIdle>>

\* is_on: read and decode the device's answer; then set_on(!is_on) is next
ToggleQueryRead ==
    /\ pc = "query_read"
    /\ \/ /\ io' = Append(io, ReadEvent("is_on", Zeros, 0, FALSE))
          /\ pc' = "done"
          /\ result' = Result("HidError", "is_on", None, FALSE)
          /\ target' = target
       \/ \E n \in ReadLens :
            LET buf == ReadBuffer(n, IF phys.on THEN 256 ELSE 0)
            IN  /\ io' = Append(io, ReadEvent("is_on", buf, n, TRUE))
                /\ IF ~InBounds(n, LastIndex("is_on"))
                   THEN /\ pc' = "done"
                        /\ result' = Result("Panic", "is_on", None, FALSE)
                        /\ target' = target
                   ELSE /\ pc' = "set"
                        /\ result' = NoResult
                        /\ target' = handle_toggle_command(decode_is_on(buf))
    /\ UNCHANGED <<call, phys, tally, ToggleIdle>>

\* set_on: encode and write; the device applies a report that arrives
ToggleSetCall ==
    /\ pc = "set"
    /\ \E ok \in BOOLEAN :
        /\ io' = Append(io, WriteEvent("set_on", SetBytes(device_type, target), ok))
        /\ IF ok
           THEN /\ result' = Result("Ok", "set_on", None, FALSE)
                /\ phys' = DeviceApply(SetBytes(device_type, target))
                /\ tally' = [tally EXCEPT !.applied = @ + 1]
           ELSE /\ result' = Result("HidError", "set_on", None, FALSE)
                /\ UNCHANGED <<phys, tally>>
    /\ pc' = "done"
    /\ UNCHANGED <<call, target, ToggleIdle>>

ToggleReturn ==
    /\ pc = "done"
    /\ pc' = "idle"
    /\ call' = NoCall
    /\ target' = NoTarget
    /\ io' = <<>>
    /\ result' = NoResult
    /\ UNCHANGED <<phys, tally, ToggleIdle>>

NextToggle ==
    ToggleBegin \/ ToggleQueryWrite \/ ToggleQueryRead \/ ToggleSetCall \/ ToggleReturn

SpecToggle == InitToggle /\ [][NextToggle]_vars

\* C24: toggle reads the power state and writes its negation: with no
\* other writer the device's power state after a toggle is the negation of
\* its state before, two toggles in a row restore the original state, and
\* when the power query fails no set-power report is written.
C24_Toggle ==
    /\ (pc = "done" /\ result.tag = "Ok") =>
          /\ phys.on = ~tally.before
          /\ Len(io) = 3
          /\ SetWrites = {3}
          /\ io[3].data = Shape(IF device_type = "LitraBeamLX" THEN 6 ELSE 4, 28,
                                IF tally.before THEN 0 ELSE 1, 0)
    /\ phys.on = Differ(tally.on0, tally.applied % 2 = 1)
    /\ (pc = "done" /\ result.by = "is_on") =>
          /\ result.tag \in {"HidError", "Panic"}
          /\ SetWrites = {}
          /\ phys.on = tally.before

\* the second of two toggles has succeeded and the device is back in its
\* original state
C24_Witness ==
    /\ pc = "done"
    /\ result.tag = "Ok"
    /\ tally.begun = 2
    /\ tally.applied = 2
    /\ phys.on = tally.on0
    /\ phys.on = ~tally.before

----------------------------------------------------------------------------
(* Desktop frontend: the Pinia device store (src/stores/device.ts).  Each   *)
(* async action runs up to its `await invoke(...)`, and continues when the *)
(* backend call resolves or rejects.                                       *)

OperationKinds == {"discovery", "refresh", "power", "brightness", "temperature"}

\* getOperationState's default
NoOperationState == [loading |-> FALSE, error |-> "null", success |-> "null"]

\* setOperationState: Object.assign(operationStates[serial][operation], state);
\* patch holds the fields the caller passes
setOperationState(states, operation, patch) ==
    [states EXCEPT ![operation] =
        [f \in {"loading", "error", "success"} |->
            IF f \in DOMAIN patch THEN patch[f] ELSE states[operation][f]]]

\* mutant: Math.floor
MathRound_Floor(num, den) == num \div den

\* Math.round(num / den) for den > 0: the nearest integer, halves upwards
MathRound(num, den) == (2 * num + den) \div (2 * den)

\* Math.round(((lumens - min) / range) * 100)
LumensToPercentage(lumens, min, max) == MathRound((lumens - min) * 100, max - min)

\* Math.round(min + (range * percentage / 100))
PercentageToLumens(percentage, min, max) ==
    MathRound(100 * min + (max - min) * percentage, 100)

StoreActions == {"discoverDevices", "refreshDevices", "setPowerState", "togglePower",
                 "setBrightness", "setBrightnessPercentage", "setTemperature",
                 "setTemperaturePreset"}

StoreSetters == StoreActions \ {"discoverDevices", "refreshDevices"}

\* the operation whose state an action reports under
OperationOf(fn) ==
    CASE fn = "discoverDevices" -> "discovery"
      [] fn = "refreshDevices" -> "refresh"
      [] fn \in {"setPowerState", "togglePower"} -> "power"
      [] fn \in {"setBrightness", "setBrightnessPercentage"} -> "brightness"
      [] fn \in {"setTemperature", "setTemperaturePreset"} -> "temperature"

\* arguments of an action / values a backend call resolves with
Arg(on, n) == [on |-> on, n |-> n]
NoArg == Arg(FALSE, 0)

Slots == {1, 2}

FreeTask == [fn |-> "none", arg |-> NoArg, pc |-> "free"]

\* the cached DeviceInfo
DeviceEntry(min, max, on, lumens, kelvin) ==
    [min_brightness_lumens |-> min, max_brightness_lumens |-> max, is_on |-> on,
     brightness_lumens |-> lumens,
     brightness_percentage |-> LumensToPercentage(lumens, min, max),
     temperature_kelvin |-> kelvin]

\* the synchronous head of an action: setOperationState(.., { loading: true, error: null })
StartOps(states, fn) ==
    setOperationState(states, OperationOf(fn), [loading |-> TRUE, error |-> "null"])

\* after the await: setOperationState(.., { loading: false, success: ... })
ResolveOps(states, fn) ==
    setOperationState(states, OperationOf(fn), [loading |-> FALSE, success |-> "set"])

\* mutant: the catch records the error and leaves the loading flag set
RejectOps_KeepLoading(states, fn) ==
    setOperationState(states, OperationOf(fn), [error |-> "set"])

\* in the catch: setOperationState(.., { loading: false, error: appError })
RejectOps(states, fn) ==
    setOperationState(states, OperationOf(fn), [loading |-> FALSE, error |-> "set"])

\* mutant: the cache is updated optimistically, whatever the backend answers
RejectCache_Optimistic(entry, fn, arg) ==
    CASE fn = "setPowerState" -> [entry EXCEPT !.is_on = arg.on]
      [] fn = "setTemperature" -> [entry EXCEPT !.temperature_kelvin = arg.n]
      [] fn = "setBrightness" -> [entry EXCEPT !.brightness_lumens = arg.n]
      [] OTHER -> entry

\* the catch branch does not touch devices.value
RejectCache(entry, fn, arg) == entry

\* "Update device state locally" once the backend call has resolved with v
ResolveCache(entry, fn, arg, v) ==
    CASE fn = "setPowerState" -> [entry EXCEPT !.is_on = arg.on]
      [] fn = "togglePower" -> [entry EXCEPT !.is_on = v.on]
      [] fn = "setBrightness" ->
            [entry EXCEPT !.brightness_lumens = arg.n,
                          !.brightness_percentage =
                              LumensToPercentage(arg.n, entry.min_brightness_lumens,
                                                 entry.max_brightness_lumens)]
      [] fn = "setBrightnessPercentage" ->
            [entry EXCEPT !.brightness_percentage = arg.n,
                          !.brightness_lumens =
                              PercentageToLumens(arg.n, entry.min_brightness_lumens,
                                                 entry.max_brightness_lumens)]
      [] fn = "setTemperature" -> [entry EXCEPT !.temperature_kelvin = arg.n]
      [] fn = "setTemperaturePreset" -> [entry EXCEPT !.temperature_kelvin = v.n]
      [] fn = "discoverDevices" ->
            DeviceEntry(entry.min_brightness_lumens, entry.max_brightness_lumens,
                        v.on, v.n, entry.temperature_kelvin)

\* arguments the user interface passes
StoreArgs(fn) ==
    CASE fn = "setPowerState" -> {Arg(b, 0) : b \in BOOLEAN}
      [] fn = "setBrightness" -> {Arg(FALSE, 100)}
      [] fn = "setBrightnessPercentage" -> {Arg(FALSE, 50)}
      [] fn = "setTemperature" -> {Arg(FALSE, 5000)}
      [] fn = "setTemperaturePreset" -> {Arg(FALSE, 1)}
      [] OTHER -> {NoArg}

\* values the backend resolves with
BackendValues(fn) ==
    CASE fn = "togglePower" -> {Arg(b, 0) : b \in BOOLEAN}
      [] fn = "setTemperaturePreset" -> {Arg(FALSE, 3200)}
      [] fn = "discoverDevices" -> {Arg(TRUE, 20), Arg(FALSE, 250)}
      [] OTHER -> {NoArg}

Event(event, slot, fn, thrown) ==
    [event |-> event, slot |-> slot, fn |-> fn, thrown |-> thrown]

InitStore ==
    /\ device_type = "LitraGlow"
    /\ overflow_checks = FALSE
    /\ HandleIdle
    /\ CatalogParked
    /\ SessionsParked
    /\ cache = DeviceEntry(20, 250, FALSE, 20, 2700)
    /\ opstate = [k \in OperationKinds |-> NoOperationState]
    /\ tasks = [s \in Slots |-> FreeTask]
    /\ last = Event("none", 0, "none", FALSE)
    /\ preset = <<>>

StoreIdle == <<catalog, sessions, handle, preset>>

\* an action of the store is invoked and runs up to its first await
StoreStart(s, fns) ==
    /\ tasks[s].pc = "free"
    /\ \E fn \in fns, arg \in UNION {StoreArgs(f) : f \in fns} :
        /\ arg \in StoreArgs(fn)
        /\ opstate' = StartOps(opstate, fn)
        /\ tasks' = [tasks EXCEPT ![s] = [fn |-> fn, arg |-> arg, pc |-> "invoke"]]
        /\ last' = Event("start", s, fn, FALSE)
    /\ UNCHANGED <<cache, StoreIdle>>

\* the awaited backend call resolves and the action runs to its end
\* (refreshDevices: runs on into discoverDevices, up to that one's await)
StoreResolve(s) ==
    /\ tasks[s].pc \in {"invoke", "discover"}
    /\ LET fn == tasks[s].fn
       IN  IF fn = "refreshDevices" /\ tasks[s].pc = "invoke"
           THEN /\ opstate' = StartOps(opstate, "discoverDevices")
                /\ tasks' = [tasks EXCEPT ![s].pc = "discover"]
                /\ last' = Event("nested", s, fn, FALSE)
                /\ cache' = cache
           ELSE IF fn = "refreshDevices"
           THEN \E v \in BackendValues("discoverDevices") :
                /\ cache' = ResolveCache(cache, "discoverDevices", NoArg, v)
                /\ opstate' = ResolveOps(ResolveOps(opstate, "discoverDevices"), fn)
                /\ tasks' = [tasks EXCEPT ![s] = FreeTask]
                /\ last' = Event("resolved", s, fn, FALSE)
           ELSE \E v \in BackendValues(fn) :
                /\ cache' = ResolveCache(cache, fn, tasks[s].arg, v)
                /\ opstate' = ResolveOps(opstate, fn)
                /\ tasks' = [tasks EXCEPT ![s] = FreeTask]
                /\ last' = Event("resolved", s, fn, FALSE)
    /\ UNCHANGED StoreIdle

\* the awaited backend call rejects: the catch records the error and rethrows
\* (refreshDevices awaiting discoverDevices: both catch blocks run)
StoreReject(s) ==
    /\ tasks[s].pc \in {"invoke", "discover"}
    /\ LET fn == tasks[s].fn
       IN  /\ opstate' = IF tasks[s].pc = "discover"
                         THEN RejectOps(RejectOps(opstate, "discoverDevices"), fn)
                         ELSE RejectOps(opstate, fn)
           /\ cache' = RejectCache(cache, fn, tasks[s].arg)
           /\ last' = Event("rejected", s, fn, TRUE)
    /\ tasks' = [tasks EXCEPT ![s] = FreeTask]
    /\ UNCHANGED StoreIdle

\* one action at a time
StartAlone ==
    /\ \A s \in Slots : tasks[s].pc = "free"
    /\ StoreStart(1, StoreActions)

BackendResolves == \E s \in Slots : StoreResolve(s)

BackendRejects == \E s \in Slots : StoreReject(s)

NextStore == StartAlone \/ BackendResolves \/ BackendRejects

\* every backend call is answered: it resolves or it rejects
SpecStore ==
    InitStore /\ [][NextStore]_vars /\ WF_vars(BackendResolves \/ BackendRejects)

----------------------------------------------------------------------------
(* Properties of the device store                                          *)

\* the operation state the action that took the last step reports under
LastState == opstate[OperationOf(last.fn)]

C29_CacheOnlyOnResolve ==
    [][/\ (last'.event = "rejected" /\ last'.fn \in StoreSetters) =>
              (cache' = cache /\ last'.thrown)
       /\ last'.event \in {"start", "nested"} => cache' = cache
       /\ cache' # cache => last'.event = "resolved"]_vars

\* setBrightness(100) was rejected and the cache still shows 20 lm
C29_Witness ==
    /\ last.event = "rejected"
    /\ last.fn = "setBrightness"
    /\ last.thrown
    /\ cache.brightness_lumens = 20
    /\ cache.brightness_percentage = 0
    /\ opstate["brightness"].error = "set"

----------------------------------------------------------------------------
(* Overlapping invocations: nothing in the store holds an action back      *)
(* while another one is in flight (an auto-refresh tick calls              *)
(* refreshDevices every intervalMs, the UI calls the others).              *)

OverlapActions == {"refreshDevices", "discoverDevices", "setPowerState"}

StartOverlapping == \E s \in Slots : StoreStart(s, OverlapActions)

NextOverlap == StartOverlapping \/ BackendResolves \/ BackendRejects

SpecOverlap == InitStore /\ [][NextOverlap]_vars

\* the operations with an invocation in flight
InFlight ==
    {OperationOf(tasks[s].fn) : s \in {t \in Slots : tasks[t].pc # "free"}}
    \cup {"discovery" : s \in {t \in Slots : tasks[t].pc = "discover"}}

\* C30: for every operation the loading flag is true whenever at least one
\* invocation of that kind is still in flight, also when two invocations
\* overlap.
C30_LoadingWhileInFlight ==
    \A k \in InFlight : opstate[k].loading

----------------------------------------------------------------------------
(* The brightness setters over every percentage, on both device ranges     *)

\* min_brightness_lumens, max_brightness_lumens and the device they belong to
BrightnessRanges ==
    {<<dt, minimum_brightness_in_lumen(dt), maximum_brightness_in_lumen(dt)>> :
        dt \in {"LitraGlow", "LitraBeam"}}

Percentages == 0 .. 100

\* lumens the slider of a Glow or a Beam can ask for
LumenInputs == {20, 21, 30, 31, 32, 135, 215, 249, 250, 399, 400}

BrightnessArgs(fn) ==
    IF fn = "setBrightnessPercentage"
    THEN {Arg(FALSE, p) : p \in Percentages}
    ELSE {Arg(FALSE, l) : l \in {n \in LumenInputs :
                                   /\ n >= cache.min_brightness_lumens
                                   /\ n <= cache.max_brightness_lumens}}

InitBrightness ==
    /\ overflow_checks = FALSE
    /\ HandleIdle
    /\ CatalogParked
    /\ SessionsParked
    /\ \E r \in BrightnessRanges :
        /\ device_type = r[1]
        /\ cache = DeviceEntry(r[2], r[3], TRUE, r[2], 2700)
    /\ opstate = [k \in OperationKinds |-> NoOperationState]
    /\ tasks = [s \in Slots |-> FreeTask]
    /\ last = Event("none", 0, "none", FALSE)
    /\ preset = <<>>

\* setBrightness(serial, lumens) or setBrightnessPercentage(serial, percentage)
\* is invoked and runs up to its await
BrightnessStart ==
    /\ \A s \in Slots : tasks[s].pc = "free"
    /\ \E fn \in {"setBrightness", "setBrightnessPercentage"} :
        \E arg \in BrightnessArgs(fn) :
            /\ opstate' = StartOps(opstate, fn)
            /\ tasks' = [tasks EXCEPT ![1] = [fn |-> fn, arg |-> arg, pc |-> "invoke"]]
            /\ last' = Event("start", 1, fn, FALSE)
    /\ UNCHANGED <<cache, StoreIdle>>

NextBrightness == BrightnessStart \/ BackendResolves \/ BackendRejects

SpecBrightness == InitBrightness /\ [][NextBrightness]_vars

\* percentage is the whole number nearest to where lumens lies in min..max
NearestPercentage(percentage, lumens, min, max) ==
    LET d == 100 * (lumens - min) - percentage * (max - min)
    IN  2 * (IF d < 0 THEN -d ELSE d) <= max - min

\* C25: converting a percentage of 0..100 to lumens and the result back
\* yields the percentage again on both device ranges, so the cached
\* brightness_percentage and brightness_lumens agree after setBrightness
\* and after setBrightnessPercentage: the percentage asked for is kept, and
\* the cached percentage is the one nearest to the cached lumens.
C25_RoundTrip ==
    [][\A s \in Slots :
          (/\ tasks[s].fn \in {"setBrightness", "setBrightnessPercentage"}
           /\ last'.event = "resolved" /\ last'.slot = s)
          => /\ tasks[s].fn = "setBrightnessPercentage"
                  => /\ cache'.brightness_percentage = tasks[s].arg.n
                     /\ LumensToPercentage(cache'.brightness_lumens,
                                           cache'.min_brightness_lumens,
                                           cache'.max_brightness_lumens)
                            = tasks[s].arg.n
             /\ tasks[s].fn = "setBrightness"
                  => cache'.brightness_lumens = tasks[s].arg.n
             /\ NearestPercentage(cache'.brightness_percentage,
                                  cache'.brightness_lumens,
                                  cache'.min_brightness_lumens,
                                  cache'.max_brightness_lumens)]_vars

\* setBrightnessPercentage(5) has resolved on a Glow: 20 + 11.5 rounds up to
\* 32 lm, which is 5 % again
C25_Witness ==
    /\ last.event = "resolved"
    /\ last.fn = "setBrightnessPercentage"
    /\ cache.max_brightness_lumens = 250
    /\ cache.brightness_percentage = 5
    /\ cache.brightness_lumens = 32

----------------------------------------------------------------------------
(* usePresets: the lighting presets of the selected device                 *)

presets ==
    << [id |-> "cozy-daylight", temperature |-> 5200, brightness |-> 60],
       [id |-> "natural-balance", temperature |-> 5600, brightness |-> 70],
       [id |-> "cool-blue", temperature |-> 6500, brightness |-> 75],
       [id |-> "warm-candlelight", temperature |-> 3000, brightness |-> 40],
       [id |-> "bright-companionship", temperature |-> 5000, brightness |-> 100] >>

tempTolerance == 100
brightnessTolerance == 5

MathAbs(x) == IF x < 0 THEN -x ELSE x

getBrightnessPercentage(device) ==
    MathRound((device.brightness_lumens - device.min_brightness_lumens) * 100,
              device.max_brightness_lumens - device.min_brightness_lumens)

\* tempMatch && brightnessMatch of the detection loop
PresetMatches(p, device) ==
    /\ MathAbs(device.temperature_kelvin - p.temperature) <= tempTolerance
    /\ MathAbs(getBrightnessPercentage(device) - p.brightness) <= brightnessTolerance

\* the first preset of the list that matches, 'manual' when none does
detectCurrentPreset(device) ==
    LET hits == {i \in DOMAIN presets : PresetMatches(presets[i], device)}
    IN  IF hits = {} THEN "manual"
        ELSE presets[CHOOSE i \in hits : \A j \in hits : i <= j].id

\* the manual selection if there is one, else the detected preset
currentPreset == IF preset.manual # "null" THEN preset.manual
                 ELSE detectCurrentPreset(cache)

\* mutant: the minimum of the range is left out of the target
targetLumens_NoMinimum(device, p) ==
    MathRound((device.max_brightness_lumens - device.min_brightness_lumens)
                  * p.brightness, 100)

\* applyPreset: Math.round(min + (brightnessRange * preset.brightness / 100))
targetLumens(device, p) ==
    MathRound(100 * device.min_brightness_lumens
                  + (device.max_brightness_lumens - device.min_brightness_lumens)
                        * p.brightness, 100)

\* deviceStore.setTemperatureInKelvin, once the backend call has resolved
setTemperatureInKelvin(entry, kelvin) ==
    ResolveCache(entry, "setTemperature", Arg(FALSE, kelvin), NoArg)

\* deviceStore.setBrightnessInLumen, once the backend call has resolved
setBrightnessInLumen(entry, lumens) ==
    ResolveCache(entry, "setBrightness", Arg(FALSE, lumens), NoArg)

\* the watcher on [temperature_kelvin, brightness_lumens]: it runs when one of
\* the two has changed and drops a manual selection no preset matches any more
watchDevice(manual, old, new) ==
    IF /\ \/ old.temperature_kelvin # new.temperature_kelvin
          \/ old.brightness_lumens # new.brightness_lumens
       /\ manual # "null"
       /\ detectCurrentPreset(new) = "manual"
    THEN "null"
    ELSE manual

NoPreset == [id |-> "none", temperature |-> 0, brightness |-> 0]

\* temperatures and brightness percentages a refresh can report
KelvinReports == {2700, 3000, 3100, 5000, 5100, 5200, 5300, 5600, 6500}
PercentageReports == {0, 35, 40, 45, 55, 60, 65, 70, 75, 80, 95, 100}

InitPresets ==
    /\ overflow_checks = FALSE
    /\ HandleIdle
    /\ CatalogParked
    /\ SessionsParked
    /\ \E r \in BrightnessRanges :
        /\ device_type = r[1]
        /\ cache = DeviceEntry(r[2], r[3], TRUE, r[2], 2700)
    /\ opstate = [k \in OperationKinds |-> NoOperationState]
    /\ tasks = [s \in Slots |-> FreeTask]
    /\ last = Event("none", 0, "none", FALSE)
    /\ preset = [manual |-> "null", pc |-> "idle", applying |-> NoPreset]

PresetsIdle == <<catalog, sessions, handle, last>>

\* applyPreset(p) up to the await of device.setTemperatureInKelvin
ApplyPreset ==
    /\ preset.pc = "idle"
    /\ tasks[2].pc = "free"
    /\ \E i \in DOMAIN presets :
        preset' = [manual |-> presets[i].id, pc |-> "temperature",
                   applying |-> presets[i]]
    /\ opstate' = StartOps(opstate, "setTemperature")
    /\ UNCHANGED <<cache, tasks, PresetsIdle>>

\* the temperature update resolves; applyPreset goes on to the await of
\* device.setBrightnessInLumen
TemperatureResolves ==
    /\ preset.pc = "temperature"
    /\ cache' = setTemperatureInKelvin(cache, preset.applying.temperature)
    /\ opstate' = StartOps(ResolveOps(opstate, "setTemperature"), "setBrightness")
    /\ preset' = [preset EXCEPT !.manual = watchDevice(@, cache, cache'),
                                !.pc = "brightness"]
    /\ UNCHANGED <<tasks, PresetsIdle>>

\* the temperature update rejects: the store records the error, useDevice
\* shows it, and applyPreset goes on to the brightness
TemperatureRejects ==
    /\ preset.pc = "temperature"
    /\ cache' = RejectCache(cache, "setTemperature",
                            Arg(FALSE, preset.applying.temperature))
    /\ opstate' = StartOps(RejectOps(opstate, "setTemperature"), "setBrightness")
    /\ preset' = [preset EXCEPT !.pc = "brightness"]
    /\ UNCHANGED <<tasks, PresetsIdle>>

\* the brightness update resolves and applyPreset returns
BrightnessResolves ==
    /\ preset.pc = "brightness"
    /\ cache' = setBrightnessInLumen(cache, targetLumens(cache, preset.applying))
    /\ opstate' = ResolveOps(opstate, "setBrightness")
    /\ preset' = [manual |-> watchDevice(preset.manual, cache, cache'),
                  pc |-> "idle", applying |-> NoPreset]
    /\ UNCHANGED <<tasks, PresetsIdle>>

\* the brightness update rejects and applyPreset returns
BrightnessRejects ==
    /\ preset.pc = "brightness"
    /\ cache' = RejectCache(cache, "setBrightness",
                            Arg(FALSE, targetLumens(cache, preset.applying)))
    /\ opstate' = RejectOps(opstate, "setBrightness")
    /\ preset' = [preset EXCEPT !.pc = "idle", !.applying = NoPreset]
    /\ UNCHANGED <<tasks, PresetsIdle>>

setManualMode ==
    /\ preset.manual # "null"
    /\ preset' = [preset EXCEPT !.manual = "null"]
    /\ UNCHANGED <<cache, opstate, tasks, PresetsIdle>>

\* discoverDevices is invoked (a refresh) while no preset is being applied
DiscoverStarts ==
    /\ preset.pc = "idle"
    /\ tasks[2].pc = "free"
    /\ opstate' = StartOps(opstate, "discoverDevices")
    /\ tasks' = [tasks EXCEPT ![2] = [fn |-> "discoverDevices", arg |-> NoArg,
                                      pc |-> "invoke"]]
    /\ UNCHANGED <<cache, preset, PresetsIdle>>

\* discover_devices resolves with the device as it is now: its temperature or
\* brightness may have been changed from outside
DiscoverResolves ==
    /\ tasks[2].pc = "invoke"
    /\ \E kelvin \in KelvinReports, percentage \in PercentageReports :
        cache' = DeviceEntry(cache.min_brightness_lumens, cache.max_brightness_lumens,
                             cache.is_on,
                             PercentageToLumens(percentage, cache.min_brightness_lumens,
                                                cache.max_brightness_lumens),
                             kelvin)
    /\ opstate' = ResolveOps(opstate, "discoverDevices")
    /\ tasks' = [tasks EXCEPT ![2] = FreeTask]
    /\ preset' = [preset EXCEPT !.manual = watchDevice(@, cache, cache')]
    /\ UNCHANGED PresetsIdle

DiscoverRejects ==
    /\ tasks[2].pc = "invoke"
    /\ opstate' = RejectOps(opstate, "discoverDevices")
    /\ tasks' = [tasks EXCEPT ![2] = FreeTask]
    /\ UNCHANGED <<cache, preset, PresetsIdle>>

NextPresets ==
    \/ ApplyPreset
    \/ TemperatureResolves
    \/ TemperatureRejects
    \/ BrightnessResolves
    \/ BrightnessRejects
    \/ setManualMode
    \/ DiscoverStarts
    \/ DiscoverResolves
    \/ DiscoverRejects

SpecPresets == InitPresets /\ [][NextPresets]_vars

----------------------------------------------------------------------------
(* Properties of the presets                                               *)

C27_ReportedPresetMatches ==
    (preset.pc = "idle" /\ currentPreset # "manual")
        => \E i \in DOMAIN presets :
             /\ presets[i].id = currentPreset
             /\ PresetMatches(presets[i], cache)

====
